---- MODULE Spec2Model ----
(***************************************************************************)
(* Capacity accounting of clarioshop/vettedpulse.                          *)
(*                                                                         *)
(* CapacityMonitor (src/unnamed/part_000) holds the last capacity snapshot *)
(* fetched from the backend, answers derived queries on it and keeps the   *)
(* set of warning keys that were already shown.  TierManager               *)
(* (src/dashboard/js/tierManager.js) fetches an affiliate's tier status    *)
(* and the capacity of a tier through a cache with expiry times and        *)
(* decides on clicks and upgrades.  Auth (same file) limits the rate of    *)
(* failed logins per email; CONFIG (src/js/config.js) carries the tier     *)
(* table, its startup validation and the progress computation.             *)
(*                                                                         *)
(* Specifications: Spec (the monitor's refreshes, timers and listeners),   *)
(* SpecQ (the derived queries on rich snapshots), SpecW (one warning       *)
(* evaluation), SpecC (the cache), SpecT (getCurrentTier and               *)
(* isActionAllowed under concurrency and time), SpecD (the decisions of    *)
(* isActionAllowed and canUpgrade on rich statuses), SpecU (upgrades),     *)
(* SpecA (checkTierCapacity under time), SpecR (failing fetches), SpecB    *)
(* (queries for a tier the data may lack), SpecG (getAllTierCapacities     *)
(* and getAvailableTier), SpecL (progress, with fairness of the timer),    *)
(* SpecN (listeners that throw), SpecP (the two progress computations),    *)
(* SpecV (validateConfig at load), SpecS (an upgrade racing a tier-status  *)
(* fetch, with the backend's record and its replies in flight), SpecO      *)
(* (overlapping capacity requests answered in any order), SpecH (logins    *)
(* under the rate limit).                                                  *)
(*                                                                         *)
(* Conventions                                                             *)
(*  - Null stands for JavaScript null/undefined.  Every nullable value is  *)
(*    a record, so that it can be compared with Null.                      *)
(*  - A snapshot is [clicks, sales, tiers]; tiers is [entries |-> seq. of  *)
(*    [name, data]] in the key order of the backend response, which is the *)
(*    order Object.entries() iterates in.                                  *)
(*  - percentFull is kept in tenths of a percent (98.9 is 989), so that    *)
(*    `percentFull > 95` is `percentFull > 950`.                           *)
(*  - clickPercent = (used / limit) * 100 is compared with a threshold t   *)
(*    as 100 * used > t * limit.  The two agree for the IEEE doubles the   *)
(*    code computes with (also for limit = 0, where the quotient is        *)
(*    Infinity or NaN).                                                    *)
(***************************************************************************)
EXTENDS Integers, Sequences, FiniteSets, TLC

VARIABLES
    currentCapacity,   \* this.currentCapacity
    warningsShown,     \* this.warningsShown
    listeners,         \* this.listeners: the registered callbacks, in order
    updateTimer,       \* this.updateTimer: Null or the handle of a timer
    timers,            \* interval timers alive in the event loop
    inflight,          \* capacity requests sent and not yet answered
    olderInFlight,     \* those of them sent before the request whose response is held
    ret,               \* what the last completed fetchCapacity returned
    shown,             \* per key: warnings handed to displayWarnings since the last reset
    satisfied,         \* keys whose rule held in a snapshot a refresh returned since the last reset
    calls,             \* what the listeners observed in the last completed fetchCapacity
    answer,            \* the result of the last completed query or call
    cache,             \* TierManager: this.cache, key -> [value, expiry]
    now,               \* Date.now()
    updateCallbacks,   \* TierManager: this.updateCallbacks, in order
    pending,           \* the calls waiting for the backend or for a lookup
    cacheLog,          \* per key, the last setCached: [value, at, ttl, cleared]
    backend,           \* the backend's record: affiliate -> current tier
    loginAttempts      \* Auth: this.loginAttempts, email -> timestamps of failed logins

vars == <<currentCapacity, warningsShown, listeners, updateTimer, timers,
          inflight, olderInFlight, ret, shown, satisfied, calls, answer,
          cache, now, updateCallbacks, pending, cacheLog, backend, loginAttempts>>

Null == [null |-> TRUE]

\* the TierManager's part of the state, and its value after `new TierManager()`
tmVars == <<cache, now, updateCallbacks, pending, cacheLog, backend, loginAttempts>>

EmptyCache == [k \in {} |-> Null]

\* the backend, as far as the model follows it: the tier of the affiliate
BackendInit == [a \in {"A1"} |-> "NEWBIE"]

\* this.loginAttempts = new Map()
NoLoginAttempts == [e \in {} |-> << >>]

TierManagerInit ==
    /\ cache = EmptyCache
    /\ now = 0
    /\ updateCallbacks = << >>
    /\ pending = << >>
    /\ cacheLog = EmptyCache
    /\ backend = BackendInit
    /\ loginAttempts = NoLoginAttempts

(***************************************************************************)
(* Bounds of the model.                                                    *)
(***************************************************************************)
MaxInFlight == 2
MaxTimers == 2
MaxListeners == 2

(***************************************************************************)
(* Configuration.                                                          *)
(***************************************************************************)
TierOrder == <<"NEWBIE", "ACTIVE", "PRO", "ELITE">>

TierNames == {TierOrder[i] : i \in 1..Len(TierOrder)}

ClicksKeys == {"clicks_80", "clicks_95"}

TierKey(tier, threshold) == "tier_" \o tier \o "_" \o threshold

AllKeys == ClicksKeys \cup {TierKey(t, th) : t \in TierNames, th \in {"90", "98"}}

(***************************************************************************)
(* Snapshots.                                                              *)
(***************************************************************************)
\* a daily pool as the backend reports it: the three numbers are the backend's
Pool(u, l, r) == [used |-> u, limit |-> l, remaining |-> r]

\* the click pool of a backend whose remaining is consistent with used and limit
Clicks(u, l) == Pool(u, l, IF l > u THEN l - u ELSE 0)

TierData(a, p) == [available |-> a, percentFull |-> p]

\* a tier with the counts behind available and percentFull
TierCounts(u, l, a, p) == [used |-> u, limit |-> l, available |-> a, percentFull |-> p]

Entry(t, d) == [name |-> t, data |-> d]

FullCapacity(c, s, es) == [clicks |-> c, sales |-> s, tiers |-> [entries |-> es]]

Capacity(c, es) == FullCapacity(c, Pool(10, 500, 490), es)

WellFormed(cap) ==
    /\ cap # Null
    /\ cap.clicks # Null
    /\ cap.tiers # Null
    /\ \A i \in 1..Len(cap.tiers.entries) : cap.tiers.entries[i].data # Null

(***************************************************************************)
(* clickPercent > threshold, for clickPercent = (used / limit) * 100.      *)
(***************************************************************************)
ClickPercentOver(clicks, threshold) == 100 * clicks.used > threshold * clicks.limit

(***************************************************************************)
(* getCurrentCapacity()                                                    *)
(***************************************************************************)
GetCurrentCapacity(cap) == cap

(***************************************************************************)
(* getSystemStatus().  threw: reading clicks.used of a snapshot without    *)
(* clicks raises a TypeError.                                              *)
(***************************************************************************)
Status(s, c) == [threw |-> FALSE, status |-> s, color |-> c]

StatusThrew == [threw |-> TRUE, status |-> "none", color |-> "none"]

GetSystemStatusLowCritical(cap) ==
    IF cap = Null THEN Status("unknown", "gray")
    ELSE IF cap.clicks = Null THEN StatusThrew
    ELSE IF ClickPercentOver(cap.clicks, 90) THEN Status("critical", "red")
    ELSE IF ClickPercentOver(cap.clicks, 80) THEN Status("warning", "yellow")
    ELSE Status("healthy", "green")

GetSystemStatusInclusive(cap) ==
    IF cap = Null THEN Status("unknown", "gray")
    ELSE IF cap.clicks = Null THEN StatusThrew
    ELSE IF ~ClickPercentOver(cap.clicks, 95) /\ 100 * cap.clicks.used # 95 * cap.clicks.limit
         THEN IF ~ClickPercentOver(cap.clicks, 80) /\ 100 * cap.clicks.used # 80 * cap.clicks.limit
              THEN Status("healthy", "green")
              ELSE Status("warning", "yellow")
         ELSE Status("critical", "red")

GetSystemStatus(cap) ==
    IF cap = Null THEN Status("unknown", "gray")
    ELSE IF cap.clicks = Null THEN StatusThrew
    ELSE IF ClickPercentOver(cap.clicks, 95) THEN Status("critical", "red")
    ELSE IF ClickPercentOver(cap.clicks, 80) THEN Status("warning", "yellow")
    ELSE Status("healthy", "green")

(***************************************************************************)
(* shouldPauseSignups(): the loop over Object.entries(tiers), then the     *)
(* global click test.                                                      *)
(***************************************************************************)
Value(v) == [threw |-> FALSE, value |-> v]

Threw == [threw |-> TRUE, value |-> Null]

RECURSIVE AnyTierOver(_, _, _)
AnyTierOver(entries, i, threshold) ==
    IF i > Len(entries) THEN Value(FALSE)
    ELSE IF entries[i].data = Null THEN Threw
    ELSE IF entries[i].data.percentFull > threshold THEN Value(TRUE)
    ELSE AnyTierOver(entries, i + 1, threshold)

ShouldPauseSignupsNoClicks(cap) ==
    IF cap = Null THEN Value(FALSE)
    ELSE IF cap.tiers = Null THEN Threw
    ELSE AnyTierOver(cap.tiers.entries, 1, 950)

ShouldPauseSignups(cap) ==
    IF cap = Null THEN Value(FALSE)
    ELSE IF cap.tiers = Null THEN Threw
    ELSE LET t == AnyTierOver(cap.tiers.entries, 1, 950)
         IN  IF t.threw \/ t.value THEN t
             ELSE IF cap.clicks = Null THEN Threw
             ELSE Value(ClickPercentOver(cap.clicks, 90))

(***************************************************************************)
(* getRecommendedTier(): the first entry, in the order of the response,    *)
(* with strictly more available slots than every entry before it.          *)
(***************************************************************************)
RECURSIVE BestTier(_, _, _, _)
BestTier(entries, i, bestTier, mostSpace) ==
    IF i > Len(entries) THEN Value(bestTier)
    ELSE IF entries[i].data = Null THEN Threw
    ELSE IF entries[i].data.available > mostSpace
         THEN BestTier(entries, i + 1, entries[i].name, entries[i].data.available)
         ELSE BestTier(entries, i + 1, bestTier, mostSpace)

GetRecommendedTier(cap) ==
    IF cap = Null THEN Value("NEWBIE")
    ELSE IF cap.tiers = Null THEN Threw
    ELSE BestTier(cap.tiers.entries, 1, "NEWBIE", 0)

(***************************************************************************)
(* checkWarnings().  A rule fires when its condition holds and its key is  *)
(* not in warningsShown: the warning is pushed and the key is recorded.    *)
(* st is [fired, warnings]: the fired set and the warnings pushed so far   *)
(* (each warning is named by its key).                                     *)
(***************************************************************************)
FireAlways(cond, key, st) ==
    IF cond
    THEN [fired |-> st.fired \cup {key}, warnings |-> Append(st.warnings, key)]
    ELSE st

FireIfNew(cond, key, st) ==
    IF cond /\ key \notin st.fired
    THEN [fired |-> st.fired \cup {key}, warnings |-> Append(st.warnings, key)]
    ELSE st

ClickWarningsCriticalFirst(clicks, st) ==
    FireIfNew(ClickPercentOver(clicks, 80), "clicks_80",
        FireIfNew(ClickPercentOver(clicks, 95), "clicks_95", st))

ClickWarnings(clicks, st) ==
    FireIfNew(ClickPercentOver(clicks, 95), "clicks_95",
        FireIfNew(ClickPercentOver(clicks, 80), "clicks_80", st))

RECURSIVE TierWarningsExclusive(_, _, _)
TierWarningsExclusive(entries, i, st) ==
    IF i > Len(entries) THEN [threw |-> FALSE, fired |-> st.fired, warnings |-> st.warnings]
    ELSE IF entries[i].data = Null
         THEN [threw |-> TRUE, fired |-> st.fired, warnings |-> st.warnings]
    ELSE TierWarningsExclusive(entries, i + 1,
            IF entries[i].data.percentFull > 980
            THEN FireIfNew(TRUE, TierKey(entries[i].name, "98"), st)
            ELSE FireIfNew(entries[i].data.percentFull > 900, TierKey(entries[i].name, "90"), st))

RECURSIVE TierWarnings(_, _, _)
TierWarnings(entries, i, st) ==
    IF i > Len(entries) THEN [threw |-> FALSE, fired |-> st.fired, warnings |-> st.warnings]
    ELSE IF entries[i].data = Null
         THEN [threw |-> TRUE, fired |-> st.fired, warnings |-> st.warnings]
    ELSE TierWarnings(entries, i + 1,
            FireIfNew(entries[i].data.percentFull > 980, TierKey(entries[i].name, "98"),
                FireIfNew(entries[i].data.percentFull > 900, TierKey(entries[i].name, "90"), st)))

\* threw: a TypeError left checkWarnings before displayWarnings was reached;
\* the keys added to the fired set up to that point stay in it.
CheckWarnings(cap, fired) ==
    IF cap = Null THEN [threw |-> FALSE, fired |-> fired, warnings |-> <<>>]
    ELSE IF cap.clicks = Null THEN [threw |-> TRUE, fired |-> fired, warnings |-> <<>>]
    ELSE LET st == ClickWarnings(cap.clicks, [fired |-> fired, warnings |-> <<>>])
         IN  IF cap.tiers = Null
             THEN [threw |-> TRUE, fired |-> st.fired, warnings |-> st.warnings]
             ELSE TierWarnings(cap.tiers.entries, 1, st)

(***************************************************************************)
(* The keys whose rule (spec 4.2, rules 1-4) holds in a snapshot.          *)
(***************************************************************************)
SatisfiedKeys(cap) ==
    IF cap = Null THEN {}
    ELSE (IF cap.clicks = Null THEN {}
          ELSE {k \in ClicksKeys :
                   \/ k = "clicks_80" /\ ClickPercentOver(cap.clicks, 80)
                   \/ k = "clicks_95" /\ ClickPercentOver(cap.clicks, 95)})
         \cup
         (IF cap.tiers = Null THEN {}
          ELSE UNION {IF cap.tiers.entries[i].data = Null THEN {}
                      ELSE (IF cap.tiers.entries[i].data.percentFull > 900
                            THEN {TierKey(cap.tiers.entries[i].name, "90")} ELSE {})
                           \cup
                           (IF cap.tiers.entries[i].data.percentFull > 980
                            THEN {TierKey(cap.tiers.entries[i].name, "98")} ELSE {})
                      : i \in 1..Len(cap.tiers.entries)})

(***************************************************************************)
(* notifyListeners(): every registered callback is called once, in order,  *)
(* with this.currentCapacity; what a callback throws is caught.  ids are   *)
(* the callbacks called, arg the snapshot they were called with;           *)
(* firedReady tells whether, at that moment, warningsShown held every key  *)
(* whose rule the snapshot satisfies.                                      *)
(***************************************************************************)
\* a callback is named by a number; the callbacks with a negative name throw
Throws(callback) == callback < 0

RECURSIVE CallEachUncaught(_, _, _)
CallEachUncaught(callbacks, i, called) ==
    IF i > Len(callbacks) THEN called
    ELSE IF Throws(callbacks[i]) THEN Append(called, callbacks[i])
    ELSE CallEachUncaught(callbacks, i + 1, Append(called, callbacks[i]))

\* the forEach loop with its try/catch: the callbacks called, in order
RECURSIVE CallEach(_, _, _)
CallEach(callbacks, i, called) ==
    IF i > Len(callbacks) THEN called
    ELSE IF Throws(callbacks[i]) THEN CallEach(callbacks, i + 1, Append(called, callbacks[i]))
    ELSE CallEach(callbacks, i + 1, Append(called, callbacks[i]))

NoCalls == [ids |-> <<>>, firedReady |-> TRUE, arg |-> Null]

NotifyListeners(ls, cap, fired) ==
    [ids |-> CallEach(ls, 1, << >>), firedReady |-> SatisfiedKeys(cap) \subseteq fired,
     arg |-> cap]

(***************************************************************************)
(* fetchCapacity(), from the answer of the backend to its return.          *)
(* An outcome is [kind, success, capacity]: kind "neterr" (fetch rejects), *)
(* "badjson" (response.json() rejects), "nullbody" (the body is JSON null, *)
(* so that data.success raises a TypeError) or "body".                     *)
(* The result is the new snapshot and fired set, the warnings handed to    *)
(* displayWarnings, what the listeners saw and the value returned ("null"  *)
(* or "capacity", i.e. data.capacity).                                     *)
(***************************************************************************)
Outcome(k, s, c) == [kind |-> k, success |-> s, capacity |-> c]

Failures == {Outcome("neterr", FALSE, Null), Outcome("badjson", FALSE, Null),
             Outcome("nullbody", FALSE, Null), Outcome("body", FALSE, Null)}

\* what the success branch leaves behind: n is what the listeners saw, w the
\* outcome of checkWarnings (a TypeError in it reaches the catch block, which
\* returns null)
Returned(capacity, n, w) ==
    [capacity |-> capacity,
     fired |-> w.fired,
     displayed |-> IF w.threw THEN << >> ELSE w.warnings,
     calls |-> n,
     ret |-> IF w.threw \/ capacity = Null THEN "null" ELSE "capacity"]

OnSuccessWarnFirst(capacity, fired, ls) ==
    Returned(capacity,
             NotifyListeners(ls, capacity, CheckWarnings(capacity, fired).fired),
             CheckWarnings(capacity, fired))

\* lines 52-55: store, notifyListeners(), checkWarnings(), return data.capacity
OnSuccess(capacity, fired, ls) ==
    Returned(capacity,
             NotifyListeners(ls, capacity, fired),
             CheckWarnings(capacity, fired))

FetchCapacityNotifiesAlways(o, cap, fired, ls) ==
    IF o.kind = "body" /\ o.success
    THEN OnSuccess(o.capacity, fired, ls)
    ELSE [capacity |-> cap, fired |-> CheckWarnings(cap, fired).fired, displayed |-> <<>>,
          calls |-> NotifyListeners(ls, cap, fired), ret |-> "null"]

FetchCapacity(o, cap, fired, ls) ==
    IF o.kind = "body" /\ o.success
    THEN OnSuccess(o.capacity, fired, ls)
    ELSE [capacity |-> cap, fired |-> fired, displayed |-> <<>>,
          calls |-> NoCalls, ret |-> "null"]

(***************************************************************************)
(* What the backend may answer.                                            *)
(***************************************************************************)
Lo == TierData(50, 500)

Mid == TierData(5, 950)

Hi == TierData(1, 989)

LClicks == {Clicks(70, 100), Clicks(85, 100), Clicks(96, 100)}

LTierLists ==
    {<< >>,
     <<Entry("PRO", Mid)>>,
     <<Entry("PRO", Hi)>>,
     <<Entry("ELITE", Hi), Entry("PRO", Lo)>>,
     <<Entry("ELITE", Lo), Entry("PRO", Mid)>>}

\* success:true with fields missing: no capacity, no clicks, no tiers, a tier without data
Malformed ==
    {Null,
     [clicks |-> Null, tiers |-> [entries |-> << >>]],
     [clicks |-> Clicks(85, 100), tiers |-> Null],
     Capacity(Clicks(70, 100), <<Entry("PRO", Hi), Entry("ELITE", Null)>>)}

LCapacities == {Capacity(c, es) : c \in LClicks, es \in LTierLists} \cup Malformed

Outcomes == Failures \cup {Outcome("body", TRUE, c) : c \in LCapacities}

(***************************************************************************)
(* The state after `new CapacityMonitor()`: init() has called              *)
(* startMonitoring(), which sent the first request and set the timer.      *)
(***************************************************************************)
NoAnswer == [op |-> "none"]

Count(seq, k) == Cardinality({i \in 1..Len(seq) : seq[i] = k})

Init ==
    /\ currentCapacity = Null
    /\ warningsShown = {}
    /\ listeners = << >>
    /\ updateTimer = [id |-> 1]
    /\ timers = {1}
    /\ inflight = 1
    /\ olderInFlight = 0
    /\ ret = "none"
    /\ shown = [k \in AllKeys |-> 0]
    /\ satisfied = {}
    /\ calls = NoCalls
    /\ answer = NoAnswer
    /\ TierManagerInit

(***************************************************************************)
(* fetchCapacity() up to its first await: the request is sent.             *)
(***************************************************************************)
SendRequest ==
    /\ inflight < MaxInFlight
    /\ inflight' = inflight + 1
    /\ UNCHANGED olderInFlight

\* the setInterval callback of startMonitoring
TimerTick ==
    /\ timers # {}
    /\ SendRequest
    /\ UNCHANGED <<currentCapacity, warningsShown, listeners, updateTimer, timers,
                   ret, shown, satisfied, calls, answer>>
    /\ UNCHANGED tmVars

ForceUpdate ==
    /\ SendRequest
    /\ UNCHANGED <<currentCapacity, warningsShown, listeners, updateTimer, timers,
                   ret, shown, satisfied, calls, answer>>
    /\ UNCHANGED tmVars

NewTimer == CHOOSE t \in 1..MaxTimers : t \notin timers /\ \A u \in 1..(t - 1) : u \in timers

StartMonitoring ==
    /\ Cardinality(timers) < MaxTimers
    /\ SendRequest
    /\ timers' = timers \cup {NewTimer}
    /\ updateTimer' = [id |-> NewTimer]
    /\ UNCHANGED <<currentCapacity, warningsShown, listeners, ret, shown, satisfied,
                   calls, answer>>
    /\ UNCHANGED tmVars

StopMonitoring ==
    /\ IF updateTimer # Null
       THEN /\ timers' = timers \ {updateTimer.id}
            /\ updateTimer' = Null
       ELSE UNCHANGED <<timers, updateTimer>>
    /\ UNCHANGED <<currentCapacity, warningsShown, listeners, inflight, olderInFlight, ret, shown,
                   satisfied, calls, answer>>
    /\ UNCHANGED tmVars

ResetWarnings ==
    /\ warningsShown' = {}
    /\ shown' = [k \in AllKeys |-> 0]
    /\ satisfied' = {}
    /\ UNCHANGED <<currentCapacity, listeners, updateTimer, timers, inflight, olderInFlight, ret,
                   calls, answer>>
    /\ UNCHANGED tmVars

AddListener(isFunction) ==
    /\ Len(listeners) < MaxListeners
    /\ listeners' = IF isFunction THEN Append(listeners, Len(listeners) + 1) ELSE listeners
    /\ UNCHANGED <<currentCapacity, warningsShown, updateTimer, timers, inflight, olderInFlight, ret,
                   shown, satisfied, calls, answer>>
    /\ UNCHANGED tmVars

\* The request an outcome answers, counted from the oldest of those in
\* flight: the oldest one unless the outcome names another (responses may
\* arrive in any order).  Stores: the response is stored as the snapshot.
AnsweredRequest(o) == IF "request" \in DOMAIN o THEN o.request ELSE 1

Stores(o) == o.kind = "body" /\ o.success

OlderAfter(o, older) ==
    IF Stores(o) THEN AnsweredRequest(o) - 1
    ELSE IF AnsweredRequest(o) <= older THEN older - 1 ELSE older

\* The backend answers one of the requests in flight and fetchCapacity runs to
\* its return.  The two awaits (fetch, response.json()) are one step: the
\* monitor's state is neither read nor written between them.
FetchCapacityDone(o) ==
    /\ inflight > 0
    /\ AnsweredRequest(o) <= inflight
    /\ inflight' = inflight - 1
    /\ olderInFlight' = OlderAfter(o, olderInFlight)
    /\ \E r \in {FetchCapacity(o, currentCapacity, warningsShown, listeners)} :
           /\ currentCapacity' = r.capacity
           /\ warningsShown' = r.fired
           /\ ret' = r.ret
           /\ calls' = r.calls
           /\ shown' = IF r.displayed = << >> THEN shown
                       ELSE [k \in AllKeys |-> shown[k] + Count(r.displayed, k)]
           /\ satisfied' = IF r.ret = "capacity"
                           THEN satisfied \cup SatisfiedKeys(r.capacity)
                           ELSE satisfied
    /\ UNCHANGED <<listeners, updateTimer, timers, answer>>
    /\ UNCHANGED tmVars

Next ==
    \/ TimerTick
    \/ ForceUpdate
    \/ StartMonitoring
    \/ StopMonitoring
    \/ ResetWarnings
    \/ \E f \in BOOLEAN : AddListener(f)
    \/ \E o \in Outcomes : FetchCapacityDone(o)

Spec == Init /\ [][Next]_vars

(***************************************************************************)
(* The derived queries, asked of a monitor whose first request has been    *)
(* answered.  The snapshots cover the cut points of the click percentage   *)
(* (limit 100 and limit 5000, used above the limit), every order in which  *)
(* the response can list up to MaxPauseTiers tiers with percentFull around *)
(* its cut points, and every order of every subset of the tiers with       *)
(* equal and different available counts.                                   *)
(***************************************************************************)
MaxPauseTiers == 2

QClicks ==
    {Clicks(u, 100) : u \in {0, 80, 81, 90, 91, 95, 96, 100, 120}}
    \cup {Clicks(u, 5000) : u \in {4000, 4001, 4100, 4750, 4751}}

QPercents == {0, 900, 950, 951, 989, 1100}

QAvailable == {0, 10, 50}

\* the orders in which a response can list n distinct tiers
Orders(n) == {s \in [1..n -> TierNames] : \A i, j \in 1..n : s[i] = s[j] => i = j}

TierLists(n, dataSet) ==
    {[i \in 1..n |-> Entry(s[i], d[i])] : s \in Orders(n), d \in [1..n -> dataSet]}

QPauseCapacities ==
    {Capacity(c, es) :
        c \in QClicks,
        es \in UNION {TierLists(n, {TierData(5, p) : p \in QPercents}) : n \in 0..MaxPauseTiers}}

QTierCapacities ==
    {Capacity(Clicks(70, 100), es) :
        es \in UNION {TierLists(n, {TierData(a, 500) : a \in QAvailable}) : n \in 0..Len(TierOrder)}}

(***************************************************************************)
(* getRemainingClicks() and getRemainingSales(): the static ceiling while  *)
(* no snapshot is held, else the remaining field of the held snapshot as   *)
(* the backend reported it.  A snapshot without the pool makes the read    *)
(* of its remaining field throw.                                           *)
(***************************************************************************)
totalDailyClicks == 5000

totalDailySales == 500

HasPool(cap, pool) == pool \in DOMAIN cap /\ cap[pool] # Null

GetRemainingClicks(cap) ==
    IF cap = Null THEN Value(totalDailyClicks)
    ELSE IF ~HasPool(cap, "clicks") THEN Threw
    ELSE Value(cap.clicks.remaining)

GetRemainingSales(cap) ==
    IF cap = Null THEN Value(totalDailySales)
    ELSE IF ~HasPool(cap, "sales") THEN Threw
    ELSE Value(cap.sales.remaining)

\* responses whose pools and tiers are consistent, over the limit, or
\* report a remaining or available count that used and limit do not give
QPools(l) ==
    {Pool(l \div 2, l, l \div 2), Pool(l, l, 0), Pool(l + 20, l, 0),
     Pool(l + 20, l, -20), Pool(l \div 2, l, 0), Pool(l \div 2, l, l)}

QCountedTiers ==
    {<< >>,
     <<Entry("PRO", TierCounts(89, 90, 1, 989))>>,
     <<Entry("PRO", TierCounts(95, 90, 0, 1056))>>,
     <<Entry("PRO", TierCounts(95, 90, -5, 1056))>>,
     <<Entry("ELITE", TierCounts(5, 10, 5, 500)), Entry("PRO", TierCounts(45, 90, 60, 500))>>}

QRemainingCapacities ==
    {FullCapacity(c, s, es) : c \in QPools(100), s \in QPools(500), es \in QCountedTiers}

QOutcomes ==
    Failures \cup {Outcome("body", TRUE, c) :
                      c \in QPauseCapacities \cup QTierCapacities \cup QRemainingCapacities \cup Malformed}

InitQ ==
    /\ \E o \in QOutcomes :
          \E r \in {FetchCapacity(o, Null, {}, << >>)} :
             /\ currentCapacity = r.capacity
             /\ warningsShown = r.fired
             /\ ret = r.ret
             /\ calls = r.calls
             /\ shown = [k \in AllKeys |-> Count(r.displayed, k)]
             /\ satisfied = IF r.ret = "capacity" THEN SatisfiedKeys(r.capacity) ELSE {}
    /\ listeners = << >>
    /\ updateTimer = [id |-> 1]
    /\ timers = {1}
    /\ inflight = 0
    /\ olderInFlight = 0
    /\ answer = NoAnswer
    /\ TierManagerInit

QueryUnchanged ==
    /\ UNCHANGED <<currentCapacity, warningsShown, listeners, updateTimer, timers,
                   inflight, olderInFlight, ret, shown, satisfied, calls>>
    /\ UNCHANGED tmVars

GetSystemStatusCall ==
    /\ answer' = [op |-> "getSystemStatus", result |-> GetSystemStatus(currentCapacity)]
    /\ QueryUnchanged

ShouldPauseSignupsCall ==
    /\ answer' = [op |-> "shouldPauseSignups", result |-> ShouldPauseSignups(currentCapacity)]
    /\ QueryUnchanged

GetRecommendedTierCall ==
    /\ answer' = [op |-> "getRecommendedTier", result |-> GetRecommendedTier(currentCapacity)]
    /\ QueryUnchanged

GetRemainingClicksCall ==
    /\ answer' = [op |-> "getRemainingClicks", result |-> GetRemainingClicks(currentCapacity)]
    /\ QueryUnchanged

GetRemainingSalesCall ==
    /\ answer' = [op |-> "getRemainingSales", result |-> GetRemainingSales(currentCapacity)]
    /\ QueryUnchanged

NextQ ==
    \/ GetSystemStatusCall
    \/ ShouldPauseSignupsCall
    \/ GetRecommendedTierCall
    \/ GetRemainingClicksCall
    \/ GetRemainingSalesCall

SpecQ == InitQ /\ [][NextQ]_vars

(***************************************************************************)
(* Properties.                                                             *)
(***************************************************************************)
FetchReturned == inflight' < inflight

\* C1: a fetchCapacity call that returns null leaves currentCapacity as it
\* was before the call.
C1_FailedFetchKeepsSnapshot ==
    [][(FetchReturned /\ ret' = "null") => currentCapacity' = currentCapacity]_vars

\* C2: between two resetWarnings() calls every warning key is handed to the
\* display at most once, whatever the snapshots do, and warningsShown loses
\* a key only when resetWarnings() empties it.
C2_AtMostOncePerKey ==
    /\ [](\A k \in AllKeys : shown[k] <= 1)
    /\ [][warningsShown \subseteq warningsShown' \/ (ResetWarnings /\ warningsShown' = {})]_vars

\* C2 witness: clicks_80 was shown once, the clicks have since dropped to 80%
\* or below, and the key is still in the fired set.
C2_Witness ==
    /\ shown["clicks_80"] = 1
    /\ "clicks_80" \in warningsShown
    /\ WellFormed(currentCapacity)
    /\ ~ClickPercentOver(currentCapacity.clicks, 80)

\* C3: each key is shown exactly once if the snapshot of some successful
\* refresh since the last reset satisfied its rule (from the first such
\* refresh on), and never otherwise.
C3_ExactlyOncePerSatisfiedKey ==
    \A k \in AllKeys : shown[k] = (IF k \in satisfied THEN 1 ELSE 0)

\* C4: at most one capacity request of the monitor is in flight.
C4_OneRequestInFlight == inflight <= 1

\* C5: once a snapshot (with its clicks and tiers) is held, no step makes
\* getCurrentCapacity() null or getSystemStatus() 'unknown' again.
C5_SnapshotNeverLost ==
    [][WellFormed(GetCurrentCapacity(currentCapacity)) =>
          /\ GetCurrentCapacity(currentCapacity') # Null
          /\ GetSystemStatus(currentCapacity').status # "unknown"]_vars

HasClicks == currentCapacity # Null /\ currentCapacity.clicks # Null

Used == currentCapacity.clicks.used

Limit == currentCapacity.clicks.limit

\* C7: getSystemStatus() is unknown/gray without a snapshot, and with one it
\* is critical/red for p > 95, warning/yellow for 80 < p <= 95 and
\* healthy/green for p <= 80, where p = 100 * used / limit.
C7_StatusClassification ==
    answer.op = "getSystemStatus" =>
        /\ currentCapacity = Null =>
              /\ ~answer.result.threw
              /\ answer.result.status = "unknown"
              /\ answer.result.color = "gray"
        /\ HasClicks =>
              /\ ~answer.result.threw
              /\ 100 * Used > 95 * Limit =>
                    answer.result.status = "critical" /\ answer.result.color = "red"
              /\ (100 * Used > 80 * Limit /\ 100 * Used <= 95 * Limit) =>
                    answer.result.status = "warning" /\ answer.result.color = "yellow"
              /\ 100 * Used <= 80 * Limit =>
                    answer.result.status = "healthy" /\ answer.result.color = "green"

\* C7 witness: used above the limit is classified critical.
C7_Witness ==
    /\ answer.op = "getSystemStatus"
    /\ HasClicks
    /\ Used > Limit
    /\ answer.result.status = "critical"

\* C8 as stated: exactly 80% is WARNING and exactly 95% is CRITICAL.
C8_InclusiveBoundaries ==
    (answer.op = "getSystemStatus" /\ HasClicks) =>
        /\ 100 * Used = 80 * Limit => answer.result.status = "warning"
        /\ 100 * Used = 95 * Limit => answer.result.status = "critical"

\* C8 amended: the cut points are exclusive: exactly 80% is HEALTHY and
\* exactly 95% is WARNING.
C8_ExclusiveBoundaries ==
    (answer.op = "getSystemStatus" /\ HasClicks) =>
        /\ 100 * Used = 80 * Limit => answer.result.status = "healthy"
        /\ 100 * Used = 95 * Limit => answer.result.status = "warning"

\* C8 witness: 4750 of 5000 clicks, exactly 95%, is classified warning.
C8_Witness ==
    /\ answer.op = "getSystemStatus"
    /\ HasClicks
    /\ Used = 4750 /\ Limit = 5000
    /\ answer.result.status = "warning"

SomeTierOver(cap, threshold) ==
    \E i \in 1..Len(cap.tiers.entries) : cap.tiers.entries[i].data.percentFull > threshold

ConfigIndex(tier) == CHOOSE i \in 1..Len(TierOrder) : TierOrder[i] = tier

LargestAvailable(cap) ==
    CHOOSE a \in {cap.tiers.entries[i].data.available : i \in 1..Len(cap.tiers.entries)} :
        \A i \in 1..Len(cap.tiers.entries) : cap.tiers.entries[i].data.available <= a

EarliestLargest(cap) ==
    CHOOSE t \in TierNames :
        /\ \E i \in 1..Len(cap.tiers.entries) :
              /\ cap.tiers.entries[i].name = t
              /\ cap.tiers.entries[i].data.available = LargestAvailable(cap)
        /\ \A i \in 1..Len(cap.tiers.entries) :
              cap.tiers.entries[i].data.available = LargestAvailable(cap) =>
                  ConfigIndex(t) <= ConfigIndex(cap.tiers.entries[i].name)

\* C10: getRecommendedTier() is NEWBIE without a snapshot; with one (some tier
\* having a free slot) it is the tier with the largest available count, the
\* earliest in the order NEWBIE, ACTIVE, PRO, ELITE among equals, whatever the
\* order of the tiers in the response.
C10_LargestAvailableConfigOrder ==
    answer.op = "getRecommendedTier" =>
        /\ currentCapacity = Null => answer.result.value = "NEWBIE"
        /\ (/\ WellFormed(currentCapacity)
            /\ \E i \in 1..Len(currentCapacity.tiers.entries) :
                  currentCapacity.tiers.entries[i].data.available > 0) =>
              /\ ~answer.result.threw
              /\ answer.result.value = EarliestLargest(currentCapacity)

(***************************************************************************)
(* Remaining counts.                                                       *)
(***************************************************************************)
Max0(n) == IF n > 0 THEN n ELSE 0

Clamped(pool) == pool.remaining = Max0(pool.limit - pool.used)

TiersClamped(cap) ==
    \A i \in 1..Len(cap.tiers.entries) :
        LET d == cap.tiers.entries[i].data
        IN  "used" \in DOMAIN d => d.available = Max0(d.limit - d.used)

RemainingAnswered == answer.op \in {"getRemainingClicks", "getRemainingSales"}

\* C11: the snapshot a successful refresh left has clicks.remaining =
\* max(0, limit - used), sales.remaining = max(0, limit - used) and every
\* tier's available = max(0, limit - used), whatever the backend reported,
\* and getRemainingClicks() and getRemainingSales() are never negative.
C11_RemainingIsClamped ==
    ret = "capacity" =>
        /\ Clamped(currentCapacity.clicks)
        /\ Clamped(currentCapacity.sales)
        /\ TiersClamped(currentCapacity)
        /\ RemainingAnswered => ~answer.result.threw /\ answer.result.value >= 0

\* C12: getRemainingClicks() and getRemainingSales() return a number, never
\* null: 5000 and 500 while no refresh has succeeded, and the held
\* snapshot's clicks.remaining and sales.remaining once one has.
C12_CeilingUntilFirstSuccess ==
    RemainingAnswered =>
        /\ ~answer.result.threw
        /\ answer.op = "getRemainingClicks" =>
              answer.result.value = (IF ret = "capacity" THEN currentCapacity.clicks.remaining
                                     ELSE totalDailyClicks)
        /\ answer.op = "getRemainingSales" =>
              answer.result.value = (IF ret = "capacity" THEN currentCapacity.sales.remaining
                                     ELSE totalDailySales)

(***************************************************************************)
(* One warning evaluation.  A refresh has stored and published the         *)
(* snapshot (fetchCapacity lines 52-53) and is about to evaluate the rules *)
(* (line 54); the fired set is what the refresh before it left, after the  *)
(* response `earlier` (Null: a response without capacity).  The snapshots  *)
(* list up to MaxPauseTiers tiers in every order, each below the 90 cut,   *)
(* between the cuts and above the 98 cut.                                  *)
(***************************************************************************)
WClicks == {Clicks(50, 100), Clicks(81, 100), Clicks(96, 100), Clicks(4100, 5000)}

WSnapshots ==
    {Capacity(c, es) :
        c \in WClicks, es \in UNION {TierLists(n, {Lo, Mid, Hi}) : n \in 0..MaxPauseTiers}}
    \cup (Malformed \ {Null})

WEarlier ==
    {Null} \cup {Capacity(c, es) : c \in WClicks, es \in UNION {TierLists(n, {Lo, Mid, Hi}) : n \in 0..1}}

InitW ==
    /\ \E earlier \in WEarlier, snapshot \in WSnapshots :
          \E r \in {FetchCapacity(Outcome("body", TRUE, earlier), Null, {}, << >>)} :
             /\ currentCapacity = snapshot
             /\ warningsShown = r.fired
             /\ ret = r.ret
             /\ calls = r.calls
             /\ shown = [k \in AllKeys |-> Count(r.displayed, k)]
             /\ satisfied = IF r.ret = "capacity" THEN SatisfiedKeys(r.capacity) ELSE {}
    /\ listeners = << >>
    /\ updateTimer = [id |-> 1]
    /\ timers = {1}
    /\ inflight = 1
    /\ olderInFlight = 0
    /\ answer = NoAnswer
    /\ TierManagerInit

\* checkWarnings(): before is the fired set it started from, displayed the
\* warnings it handed to displayWarnings, in order
CheckWarningsCall ==
    \E r \in {CheckWarnings(currentCapacity, warningsShown)} :
       /\ warningsShown' = r.fired
       /\ shown' = [k \in AllKeys |-> shown[k] + (IF r.threw THEN 0 ELSE Count(r.warnings, k))]
       /\ answer' = [op |-> "checkWarnings", before |-> warningsShown, threw |-> r.threw,
                     displayed |-> IF r.threw THEN << >> ELSE r.warnings]
       /\ UNCHANGED <<currentCapacity, listeners, updateTimer, timers, inflight, olderInFlight, ret,
                      satisfied, calls>>
       /\ UNCHANGED tmVars

NextW == CheckWarningsCall

SpecW == InitW /\ [][NextW]_vars

RECURSIVE TierKeyOrder(_, _)
TierKeyOrder(entries, i) ==
    IF i > Len(entries) THEN << >>
    ELSE <<TierKey(entries[i].name, "90"), TierKey(entries[i].name, "98")>>
         \o TierKeyOrder(entries, i + 1)

KeyOrder(cap) == <<"clicks_80", "clicks_95">> \o TierKeyOrder(cap.tiers.entries, 1)

NewSatisfied(cap, fired) ==
    LET IsNew(k) == k \in SatisfiedKeys(cap) /\ k \notin fired
    IN  SelectSeq(KeyOrder(cap), IsNew)

Evaluated == answer.op = "checkWarnings" /\ WellFormed(currentCapacity)

ExampleSnapshot == Capacity(Clicks(4100, 5000), <<Entry("PRO", Hi)>>)

\* C13: one evaluation on a snapshot S with fired set F hands to the display
\* exactly the keys whose rule holds in S and that are not in F, in the order
\* clicks_80, clicks_95, then per tier tier_T_90, tier_T_98, and leaves the
\* fired set F plus these keys; for clicks 4100/5000 with PRO at 98.9 and
\* F empty these are clicks_80, tier_PRO_90, tier_PRO_98, the status is
\* warning and signups are paused.
C13_EmitsNewSatisfiedInOrder ==
    Evaluated =>
        /\ ~answer.threw
        /\ answer.displayed = NewSatisfied(currentCapacity, answer.before)
        /\ warningsShown = answer.before \cup {answer.displayed[i] : i \in 1..Len(answer.displayed)}
        /\ (currentCapacity = ExampleSnapshot /\ answer.before = {}) =>
              /\ answer.displayed = <<"clicks_80", "tier_PRO_90", "tier_PRO_98">>
              /\ GetSystemStatus(currentCapacity).status = "warning"
              /\ ShouldPauseSignups(currentCapacity) = Value(TRUE)

C13_Witness ==
    /\ Evaluated
    /\ currentCapacity = ExampleSnapshot
    /\ answer.before = {}
    /\ answer.displayed = <<"clicks_80", "tier_PRO_90", "tier_PRO_98">>

(***************************************************************************)
(* TierManager: the cache.  An entry is [value, expiry]; getCached         *)
(* returns the value while Date.now() < expiry and deletes the entry of    *)
(* that key otherwise; setCached stores Date.now() + ttl; clearCache       *)
(* empties the map.  GetCached yields the value (Null for null) and the    *)
(* map it leaves.                                                          *)
(***************************************************************************)
cacheTTL == 300000

Without(c, key) == [k \in DOMAIN c \ {key} |-> c[k]]

GetCachedInclusive(c, key, t) ==
    IF key \in DOMAIN c
    THEN IF t <= c[key].expiry
         THEN [value |-> c[key].value, cache |-> c]
         ELSE [value |-> Null, cache |-> Without(c, key)]
    ELSE [value |-> Null, cache |-> c]

GetCached(c, key, t) ==
    IF key \in DOMAIN c
    THEN IF t < c[key].expiry
         THEN [value |-> c[key].value, cache |-> c]
         ELSE [value |-> Null, cache |-> Without(c, key)]
    ELSE [value |-> Null, cache |-> c]

SetCached(c, key, value, ttl, t) ==
    [k \in DOMAIN c \cup {key} |->
        IF k = key THEN [value |-> value, expiry |-> t + ttl] ELSE c[k]]

ClearCacheOne(c) == IF DOMAIN c = {} THEN c ELSE Without(c, CHOOSE k \in DOMAIN c : TRUE)

ClearCache(c) == EmptyCache

\* the history of the cache calls: what the last setCached of a key stored
\* and when, and whether clearCache was called since
Logged(log, key, value, ttl, t) ==
    [k \in DOMAIN log \cup {key} |->
        IF k = key THEN [value |-> value, at |-> t, ttl |-> ttl, cleared |-> FALSE]
        ELSE log[k]]

LogCleared(log) == [k \in DOMAIN log |-> [log[k] EXCEPT !.cleared = TRUE]]

LogOf(log, key) == IF key \in DOMAIN log THEN log[key] ELSE Null

(***************************************************************************)
(* The cache used directly: its three methods called with keys, values and *)
(* TTLs from small sets while the clock advances in steps of 50 ms.        *)
(***************************************************************************)
MaxClock == 200

CKeys == {"k1", "k2"}

CValues == {[v |-> 1], [v |-> 2]}

CTtls == {50, 100}

monitorVars == <<currentCapacity, warningsShown, listeners, updateTimer, timers,
                 inflight, olderInFlight, ret, shown, satisfied, calls>>

AdvanceClock(d, limit) ==
    /\ now + d <= limit
    /\ now' = now + d
    /\ UNCHANGED <<cache, updateCallbacks, pending, cacheLog, answer, backend, loginAttempts>>
    /\ UNCHANGED monitorVars

SetCachedCall(key, value, ttl) ==
    /\ cache' = SetCached(cache, key, value, ttl, now)
    /\ cacheLog' = Logged(cacheLog, key, value, ttl, now)
    /\ answer' = [op |-> "setCached", key |-> key]
    /\ UNCHANGED <<now, updateCallbacks, pending, backend, loginAttempts>>
    /\ UNCHANGED monitorVars

\* at: the time of the call; logged: the history of the key at the call;
\* before and after: the map around the call
GetCachedCall(key) ==
    /\ \E g \in {GetCached(cache, key, now)} :
          /\ cache' = g.cache
          /\ answer' = [op |-> "getCached", key |-> key, result |-> g.value, at |-> now,
                        logged |-> LogOf(cacheLog, key), before |-> cache, after |-> g.cache]
    /\ UNCHANGED <<now, updateCallbacks, pending, cacheLog, backend, loginAttempts>>
    /\ UNCHANGED monitorVars

ClearCacheCall ==
    /\ cache' = ClearCache(cache)
    /\ cacheLog' = LogCleared(cacheLog)
    /\ answer' = [op |-> "clearCache"]
    /\ UNCHANGED <<now, updateCallbacks, pending, backend, loginAttempts>>
    /\ UNCHANGED monitorVars

NextC ==
    \/ AdvanceClock(50, MaxClock)
    \/ \E key \in CKeys, value \in CValues, ttl \in CTtls : SetCachedCall(key, value, ttl)
    \/ \E key \in CKeys : GetCachedCall(key)
    \/ ClearCacheCall

SpecC == Init /\ [][NextC]_vars

CacheAnswered == answer.op = "getCached"

\* the last setCached of the key read is still in force at the read
Fresh ==
    /\ answer.logged # Null
    /\ ~answer.logged.cleared
    /\ answer.at < answer.logged.at + answer.logged.ttl

\* C14: getCached(k) at time now returns the value of the last setCached(k,
\* v, ttl) iff now < (time of that set) + ttl and clearCache was not called
\* since; otherwise it returns null, the entry of k is gone and every other
\* entry is as before.  With ttl 100 the value is returned 50 ms after the
\* set and is absent 100 ms and 150 ms after it.
C14_FreshIffWithinTtl ==
    CacheAnswered =>
        /\ Fresh => answer.result = answer.logged.value /\ answer.after = answer.before
        /\ ~Fresh => answer.result = Null /\ answer.key \notin DOMAIN answer.after
        /\ \A k \in CKeys \ {answer.key} :
              /\ k \in DOMAIN answer.after <=> k \in DOMAIN answer.before
              /\ k \in DOMAIN answer.before => answer.after[k] = answer.before[k]
        /\ (answer.logged # Null /\ ~answer.logged.cleared /\ answer.logged.ttl = 100) =>
              /\ answer.at = answer.logged.at + 50 => answer.result = answer.logged.value
              /\ answer.at = answer.logged.at + 100 => answer.result = Null
              /\ answer.at = answer.logged.at + 150 => answer.result = Null

C14_Witness ==
    /\ CacheAnswered
    /\ answer.logged # Null
    /\ ~answer.logged.cleared
    /\ answer.logged.ttl = 100
    /\ answer.at = answer.logged.at + 100
    /\ answer.result = Null
    /\ answer.key \in DOMAIN answer.before
    /\ DOMAIN answer.after = CKeys \ {answer.key}

\* C15: once clearCache() was called, getCached(k) returns null for every key
\* k whose last setCached came before it, expired or not and whatever its
\* TTL, until setCached(k, ...) is called again.
C15_ClearedUntilSetAgain ==
    \A k \in DOMAIN cacheLog :
        cacheLog[k].cleared => GetCached(cache, k, now).value = Null

C15_Witness ==
    /\ CacheAnswered
    /\ answer.logged # Null
    /\ answer.logged.cleared
    /\ answer.logged.ttl = 100
    /\ answer.at < answer.logged.at + 50
    /\ answer.result = Null
    /\ answer.at = now
    /\ \E k \in DOMAIN cacheLog : ~cacheLog[k].cleared /\ now < cacheLog[k].at + cacheLog[k].ttl

(***************************************************************************)
(* TierManager: the tier status.  A body is the JSON of a successful       *)
(* getTierStatus response; a field the body lacks is absent from the       *)
(* record, and nextTier "" stands for a missing or null nextTier (all      *)
(* that the code tests is whether it is falsy).                            *)
(***************************************************************************)
Num(n) == [num |-> n]

\* CONFIG.TIERS, the field canUpgrade reads; ELITE has salesRequiredForUpgrade null
TIERS ==
    [NEWBIE |-> [salesRequiredForUpgrade |-> Num(10)],
     ACTIVE |-> [salesRequiredForUpgrade |-> Num(50)],
     PRO    |-> [salesRequiredForUpgrade |-> Num(200)],
     ELITE  |-> [salesRequiredForUpgrade |-> Null]]

\* CONFIG.TIERS[name] || CONFIG.TIERS.NEWBIE
TierInfoOf(name) == IF name \in DOMAIN TIERS THEN TIERS[name] ELSE TIERS.NEWBIE

\* the number a relational or arithmetic operator makes of a threshold: null is 0
ToNumber(x) == IF x = Null THEN 0 ELSE x.num

\* data.field || 0
OrZero(data, field) == IF field \in DOMAIN data THEN data[field] ELSE 0

TierStatus(data) ==
    [tier |-> data.currentTier,
     tierInfo |-> TierInfoOf(data.currentTier),
     clicksToday |-> OrZero(data, "clicksToday"),
     clicksLimit |-> OrZero(data, "clicksLimit"),
     clicksRemaining |-> OrZero(data, "clicksRemaining"),
     totalSales |-> OrZero(data, "totalSales"),
     nextTier |-> IF "nextTier" \in DOMAIN data THEN data.nextTier ELSE ""]

TierCacheKey(affiliateId) == "tier_" \o affiliateId

CapacityCacheKey(tierName) == "capacity_" \o tierName

(***************************************************************************)
(* isActionAllowed after its await: the decision on the tier status        *)
(* getCurrentTier returned (Null for null).                                *)
(***************************************************************************)
IsActionAllowedBelowZero(action, tier) ==
    IF tier = Null THEN [allowed |-> FALSE, reason |-> "Unable to verify tier"]
    ELSE IF action = "click"
         THEN IF tier.clicksRemaining < 0
              THEN [allowed |-> FALSE, reason |-> "Daily click limit reached",
                    current |-> tier.clicksToday, limit |-> tier.clicksLimit, remaining |-> 0]
              ELSE [allowed |-> TRUE, remaining |-> tier.clicksRemaining,
                    current |-> tier.clicksToday, limit |-> tier.clicksLimit]
    ELSE [allowed |-> TRUE]

IsActionAllowed(action, tier) ==
    IF tier = Null THEN [allowed |-> FALSE, reason |-> "Unable to verify tier"]
    ELSE IF action = "click"
         THEN IF tier.clicksRemaining <= 0
              THEN [allowed |-> FALSE, reason |-> "Daily click limit reached",
                    current |-> tier.clicksToday, limit |-> tier.clicksLimit, remaining |-> 0]
              ELSE [allowed |-> TRUE, remaining |-> tier.clicksRemaining,
                    current |-> tier.clicksToday, limit |-> tier.clicksLimit]
    ELSE [allowed |-> TRUE]

(***************************************************************************)
(* canUpgrade.  UpgradeGate is the part before checkTierCapacity: done     *)
(* with a result, or not done when the capacity of nextTier is needed.     *)
(* UpgradeDecision is the part after it.                                   *)
(***************************************************************************)
Shortfall(tier) ==
    [canUpgrade |-> FALSE,
     reason |-> "Need " \o ToString(ToNumber(tier.tierInfo.salesRequiredForUpgrade) - tier.totalSales)
                \o " more sales",
     required |-> tier.tierInfo.salesRequiredForUpgrade,
     current |-> tier.totalSales,
     remaining |-> ToNumber(tier.tierInfo.salesRequiredForUpgrade) - tier.totalSales]

UpgradeGateAbove(tier) ==
    IF tier = Null \/ tier.nextTier = ""
    THEN [done |-> TRUE, result |-> [canUpgrade |-> FALSE, reason |-> "Already at max tier"]]
    ELSE IF tier.totalSales > ToNumber(tier.tierInfo.salesRequiredForUpgrade)
         THEN [done |-> FALSE, result |-> Null]
         ELSE [done |-> TRUE, result |-> Shortfall(tier)]

UpgradeGate(tier) ==
    IF tier = Null \/ tier.nextTier = ""
    THEN [done |-> TRUE, result |-> [canUpgrade |-> FALSE, reason |-> "Already at max tier"]]
    ELSE IF tier.totalSales >= ToNumber(tier.tierInfo.salesRequiredForUpgrade)
         THEN [done |-> FALSE, result |-> Null]
         ELSE [done |-> TRUE, result |-> Shortfall(tier)]

\* capacity.available > 0; a capacity without the field compares false
AvailablePositive(capacity) == "available" \in DOMAIN capacity /\ capacity.available > 0

UpgradeDecisionNotNegative(tier, capacity) ==
    IF "available" \in DOMAIN capacity /\ capacity.available >= 0
    THEN [canUpgrade |-> TRUE, currentTier |-> tier.tier, nextTier |-> tier.nextTier,
          required |-> tier.tierInfo.salesRequiredForUpgrade, current |-> tier.totalSales]
    ELSE [canUpgrade |-> FALSE, reason |-> tier.nextTier \o " tier is currently full",
          waitlist |-> TRUE]

UpgradeDecision(tier, capacity) ==
    IF AvailablePositive(capacity)
    THEN [canUpgrade |-> TRUE, currentTier |-> tier.tier, nextTier |-> tier.nextTier,
          required |-> tier.tierInfo.salesRequiredForUpgrade, current |-> tier.totalSales]
    ELSE [canUpgrade |-> FALSE, reason |-> tier.nextTier \o " tier is currently full",
          waitlist |-> TRUE]

(***************************************************************************)
(* getCurrentTier up to its await: no id gives null, a cached status is    *)
(* returned, otherwise the request is sent (fetch).                        *)
(***************************************************************************)
StartTierNoCache(affiliateId, c, t) ==
    IF affiliateId = "" THEN [fetch |-> FALSE, tier |-> Null, cache |-> c]
    ELSE [fetch |-> TRUE, tier |-> Null, cache |-> GetCached(c, TierCacheKey(affiliateId), t).cache]

StartTier(affiliateId, c, t) ==
    IF affiliateId = "" THEN [fetch |-> FALSE, tier |-> Null, cache |-> c]
    ELSE LET g == GetCached(c, TierCacheKey(affiliateId), t)
         IN  IF g.value # Null
             THEN [fetch |-> FALSE, tier |-> g.value, cache |-> g.cache]
             ELSE [fetch |-> TRUE, tier |-> Null, cache |-> g.cache]

\* notifyListeners(tierData): every callback, in order, once; what a callback
\* throws is caught
NoNotification == [ids |-> << >>, status |-> Null]

NotifyTierListeners(callbacks, tierData) ==
    [ids |-> CallEach(callbacks, 1, << >>), status |-> tierData]

\* getCurrentTier from the response on: o is [ok, data], ok FALSE for a network
\* error, an unparsable body or success:false
OnTierStatus(o, key, c, log, callbacks, t) ==
    IF o.ok
    THEN LET tierData == TierStatus(o.data)
         IN  [tier |-> tierData,
              cache |-> SetCached(c, key, tierData, cacheTTL, t),
              log |-> Logged(log, key, tierData, cacheTTL, t),
              notified |-> NotifyTierListeners(callbacks, tierData)]
    ELSE [tier |-> Null, cache |-> c, log |-> log, notified |-> NoNotification]

\* checkTierCapacity from the response on: o is [ok, tiers]
ZeroCapacity == [used |-> 0, limit |-> 0, available |-> 0]

OnCapacity(o, tierName, c, log, t) ==
    IF o.ok /\ tierName \in DOMAIN o.tiers
    THEN [capacity |-> o.tiers[tierName],
          cache |-> SetCached(c, CapacityCacheKey(tierName), o.tiers[tierName], 60000, t),
          log |-> Logged(log, CapacityCacheKey(tierName), o.tiers[tierName], 60000, t)]
    ELSE [capacity |-> ZeroCapacity, cache |-> c, log |-> log]

\* what the caller of getCurrentTier does with the status it resolved to, up
\* to its return (done) or to the capacity request of checkTierCapacity
AfterTier(op, action, tier, c, t) ==
    IF op = "getCurrentTier"
    THEN [done |-> TRUE, result |-> tier, capacity |-> Null, cache |-> c]
    ELSE IF op = "isActionAllowed"
    THEN [done |-> TRUE, result |-> IsActionAllowed(action, tier), capacity |-> Null, cache |-> c]
    ELSE LET gate == UpgradeGate(tier)
         IN  IF gate.done
             THEN [done |-> TRUE, result |-> gate.result, capacity |-> Null, cache |-> c]
             ELSE LET g == GetCached(c, CapacityCacheKey(tier.nextTier), t)
                  IN  IF g.value # Null
                      THEN [done |-> TRUE, result |-> UpgradeDecision(tier, g.value),
                            capacity |-> g.value, cache |-> g.cache]
                      ELSE [done |-> FALSE, result |-> Null, capacity |-> Null, cache |-> g.cache]

(***************************************************************************)
(* requestUpgrade.  AfterDecision is the part between the canUpgrade       *)
(* evaluation and the upgrade request (lines 179-192; for every other      *)
(* operation the decision is the result); OnUpgrade is the part from the   *)
(* response on.  An upgrade outcome is [kind, data]: kind "neterr",        *)
(* "badjson", "nullbody" (data.success raises a TypeError) or "body", data *)
(* the JSON body, a field the body lacks being absent from the record.     *)
(***************************************************************************)
AfterDecisionAlways(op, decision) ==
    IF op # "requestUpgrade" THEN [done |-> TRUE, result |-> decision]
    ELSE [done |-> FALSE, result |-> Null]

AfterDecision(op, decision) ==
    IF op # "requestUpgrade" THEN [done |-> TRUE, result |-> decision]
    ELSE IF ~decision.canUpgrade
         THEN [done |-> TRUE, result |-> [success |-> FALSE, message |-> decision.reason]]
         ELSE [done |-> FALSE, result |-> Null]

\* data.message || 'Upgrade failed'
MessageOf(data) ==
    IF "message" \in DOMAIN data /\ data.message # "" THEN data.message ELSE "Upgrade failed"

UpgradeFailed(message, c, log) ==
    [result |-> [success |-> FALSE, message |-> message], cache |-> c, log |-> log,
     cleared |-> FALSE]

OnUpgradeAlwaysClear(o, c, log) ==
    IF o.kind = "body" /\ o.data.success
    THEN [result |-> [success |-> TRUE,
                      newTier |-> IF "newTier" \in DOMAIN o.data THEN [name |-> o.data.newTier] ELSE Null,
                      message |-> "Congratulations! You've been upgraded to "
                                  \o (IF "newTier" \in DOMAIN o.data THEN o.data.newTier ELSE "undefined")],
          cache |-> ClearCache(c), log |-> LogCleared(log), cleared |-> TRUE]
    ELSE IF o.kind = "body"
         THEN [UpgradeFailed(MessageOf(o.data), ClearCache(c), LogCleared(log)) EXCEPT !.cleared = TRUE]
         ELSE UpgradeFailed("Network error", c, log)

OnUpgrade(o, c, log) ==
    IF o.kind = "body" /\ o.data.success
    THEN [result |-> [success |-> TRUE,
                      newTier |-> IF "newTier" \in DOMAIN o.data THEN [name |-> o.data.newTier] ELSE Null,
                      message |-> "Congratulations! You've been upgraded to "
                                  \o (IF "newTier" \in DOMAIN o.data THEN o.data.newTier ELSE "undefined")],
          cache |-> ClearCache(c), log |-> LogCleared(log), cleared |-> TRUE]
    ELSE IF o.kind = "body"
         THEN UpgradeFailed(MessageOf(o.data), c, log)
         ELSE UpgradeFailed("Network error", c, log)

(***************************************************************************)
(* The calls.  A call waiting for the backend is a frame in pending: the   *)
(* operation, its arguments, the request it waits for (stage), the status  *)
(* getCurrentTier resolved to, the requests it sent and the listeners it   *)
(* notified.  A call that returns writes answer: its result, the status    *)
(* and the capacity it obtained (Null: none, not consulted), the requests  *)
(* it sent and its notification.  An await on a value that is already      *)
(* there continues in the same step.                                       *)
(***************************************************************************)
MaxCalls == 2

MaxNow == 360000

Frame(op, affiliateId, action, stage, tier, sent, notified) ==
    [op |-> op, aff |-> affiliateId, action |-> action, stage |-> stage, tier |-> tier,
     sent |-> sent, notified |-> notified]

CallAnswer(f, result, tier, capacity) ==
    [op |-> f.op, aff |-> f.aff, action |-> f.action, result |-> result, tier |-> tier,
     capacity |-> capacity, sent |-> f.sent, notified |-> f.notified]

Remove(seq, i) == SubSeq(seq, 1, i - 1) \o SubSeq(seq, i + 1, Len(seq))

WithField(r, name, v) == [k \in DOMAIN r \cup {name} |-> IF k = name THEN v ELSE r[k]]

\* the frame of a requestUpgrade that has sent its upgrade request, with the
\* decision of its canUpgrade evaluation
UpgradeFrame(f, decision, tier, capacity) ==
    [op |-> f.op, aff |-> f.aff, action |-> f.action, stage |-> "upgrade", tier |-> tier,
     sent |-> Append(f.sent, "upgrade"), notified |-> f.notified, decision |-> decision,
     capacity |-> capacity]

\* the call of frame f once its operation up to canUpgrade has the result
\* `result`: it returns (done, with its answer), or it is a requestUpgrade
\* that sends the upgrade request
Settle(f, result, tier, capacity) ==
    LET d == AfterDecision(f.op, result)
    IN  IF d.done
        THEN [done |-> TRUE,
              answer |-> IF f.op = "requestUpgrade"
                         THEN WithField(WithField(CallAnswer(f, d.result, tier, capacity),
                                                  "decision", result), "cleared", FALSE)
                         ELSE CallAnswer(f, d.result, tier, capacity),
              frame |-> Null]
        ELSE [done |-> FALSE, answer |-> Null,
              frame |-> UpgradeFrame(f, result, tier, capacity)]

\* the call of getCurrentTier, isActionAllowed, canUpgrade or requestUpgrade
TierCall(op, affiliateId, action) ==
    /\ \E s \in {StartTier(affiliateId, cache, now)} :
          IF s.fetch
          THEN /\ Len(pending) < MaxCalls
               /\ cache' = s.cache
               /\ pending' = Append(pending, Frame(op, affiliateId, action, "tier", Null,
                                                   <<"tier">>, NoNotification))
               /\ UNCHANGED answer
          ELSE \E k \in {AfterTier(op, action, s.tier, s.cache, now)} :
                  /\ cache' = k.cache
                  /\ IF k.done
                     THEN \E e \in {Settle(Frame(op, affiliateId, action, "none", Null,
                                                 << >>, NoNotification),
                                           k.result, s.tier, k.capacity)} :
                             IF e.done
                             THEN /\ answer' = e.answer
                                  /\ UNCHANGED pending
                             ELSE /\ Len(pending) < MaxCalls
                                  /\ pending' = Append(pending, e.frame)
                                  /\ UNCHANGED answer
                     ELSE /\ Len(pending) < MaxCalls
                          /\ pending' = Append(pending, Frame(op, affiliateId, action, "capacity",
                                                              s.tier, <<"capacity">>, NoNotification))
                          /\ UNCHANGED answer
    /\ UNCHANGED <<now, updateCallbacks, cacheLog, backend, loginAttempts>>

GetCurrentTierCall(affiliateId) ==
    /\ TierCall("getCurrentTier", affiliateId, "none")
    /\ UNCHANGED monitorVars

IsActionAllowedCall(action, affiliateId) ==
    /\ TierCall("isActionAllowed", affiliateId, action)
    /\ UNCHANGED monitorVars

CanUpgradeCall(affiliateId) ==
    /\ TierCall("canUpgrade", affiliateId, "none")
    /\ UNCHANGED monitorVars

\* the backend answers the tier-status request of the call pending[i]
TierStatusResponse(i, o) ==
    /\ i \in 1..Len(pending)
    /\ pending[i].stage = "tier"
    /\ \E r \in {OnTierStatus(o, TierCacheKey(pending[i].aff), cache, cacheLog,
                              updateCallbacks, now)} :
       \E k \in {AfterTier(pending[i].op, pending[i].action, r.tier, r.cache, now)} :
          /\ cache' = k.cache
          /\ cacheLog' = r.log
          /\ IF k.done
             THEN \E e \in {Settle([pending[i] EXCEPT !.notified = r.notified],
                                   k.result, r.tier, k.capacity)} :
                     IF e.done
                     THEN /\ answer' = e.answer
                          /\ pending' = Remove(pending, i)
                     ELSE /\ pending' = [pending EXCEPT ![i] = e.frame]
                          /\ UNCHANGED answer
             ELSE /\ pending' = [pending EXCEPT ![i] =
                                    [@ EXCEPT !.stage = "capacity", !.tier = r.tier,
                                              !.sent = Append(@, "capacity"),
                                              !.notified = r.notified]]
                  /\ UNCHANGED answer
    /\ UNCHANGED <<now, updateCallbacks, backend, loginAttempts>>
    /\ UNCHANGED monitorVars

\* the backend answers the capacity request of the call pending[i]
CapacityResponse(i, o) ==
    /\ i \in 1..Len(pending)
    /\ pending[i].stage = "capacity"
    /\ \E r \in {OnCapacity(o, pending[i].tier.nextTier, cache, cacheLog, now)} :
          /\ cache' = r.cache
          /\ cacheLog' = r.log
          /\ \E e \in {Settle(pending[i], UpgradeDecision(pending[i].tier, r.capacity),
                                pending[i].tier, r.capacity)} :
                IF e.done
                THEN /\ answer' = e.answer
                     /\ pending' = Remove(pending, i)
                ELSE /\ pending' = [pending EXCEPT ![i] = e.frame]
                     /\ UNCHANGED answer
    /\ UNCHANGED <<now, updateCallbacks, backend, loginAttempts>>
    /\ UNCHANGED monitorVars

RequestUpgradeCall(affiliateId) ==
    /\ TierCall("requestUpgrade", affiliateId, "none")
    /\ UNCHANGED monitorVars

\* the backend answers the upgrade request of the call pending[i]
UpgradeResponse(i, o) ==
    /\ i \in 1..Len(pending)
    /\ pending[i].stage = "upgrade"
    /\ \E r \in {OnUpgrade(o, cache, cacheLog)} :
          /\ cache' = r.cache
          /\ cacheLog' = r.log
          /\ answer' = WithField(WithField(CallAnswer(pending[i], r.result, pending[i].tier,
                                                      pending[i].capacity),
                                           "decision", pending[i].decision),
                                 "cleared", r.cleared)
          /\ pending' = Remove(pending, i)
    /\ UNCHANGED <<now, updateCallbacks, backend, loginAttempts>>
    /\ UNCHANGED monitorVars

AddTierListener(isFunction) ==
    /\ Len(updateCallbacks) < MaxListeners
    /\ updateCallbacks' = IF isFunction THEN Append(updateCallbacks, Len(updateCallbacks) + 1)
                          ELSE updateCallbacks
    /\ UNCHANGED <<cache, now, pending, cacheLog, answer, backend, loginAttempts>>
    /\ UNCHANGED monitorVars

(***************************************************************************)
(* The tier status of one affiliate in use: getCurrentTier and             *)
(* isActionAllowed called with and without an id while listeners are       *)
(* added, the backend answers with one of two bodies (clicks left, no      *)
(* click left) or fails, and the clock advances by one minute or by the    *)
(* TTL up to MaxNow.                                                       *)
(***************************************************************************)
Affiliates == {"A1"}

Actions == {"click", "sale", "view"}

TierFailure == [ok |-> FALSE, data |-> Null]

TBodies ==
    {[currentTier |-> "NEWBIE", clicksToday |-> 2, clicksLimit |-> 5, clicksRemaining |-> 3,
      totalSales |-> 12, nextTier |-> "ACTIVE"],
     [currentTier |-> "NEWBIE", clicksToday |-> 5, clicksLimit |-> 5, clicksRemaining |-> 0,
      totalSales |-> 3, nextTier |-> "ACTIVE"]}

TierOutcomes == {TierFailure} \cup {[ok |-> TRUE, data |-> b] : b \in TBodies}

TimeSteps == {60000, 300000}

NextT ==
    \/ \E a \in Affiliates \cup {""} : GetCurrentTierCall(a)
    \/ \E action \in Actions, a \in Affiliates \cup {""} : IsActionAllowedCall(action, a)
    \/ \E i \in 1..MaxCalls, o \in TierOutcomes : TierStatusResponse(i, o)
    \/ \E f \in BOOLEAN : AddTierListener(f)
    \/ \E d \in TimeSteps : AdvanceClock(d, MaxNow)

SpecT == Init /\ [][NextT]_vars

(***************************************************************************)
(* The decisions.  getCurrentTier has cached the status of the affiliate   *)
(* at time 0 (lines 52-67, no listener registered); isActionAllowed and    *)
(* canUpgrade are then called, with and without an id, and the backend     *)
(* answers the capacity requests.  The statuses cover every tier info      *)
(* (an unknown tier name included), click counts around 0, sales around    *)
(* the thresholds 10 and 50 and every nextTier; the capacities have room,  *)
(* no room, a negative count, no available field, or lack the tier.        *)
(***************************************************************************)
DBodies ==
    {[currentTier |-> t, clicksToday |-> c[1], clicksLimit |-> c[2], clicksRemaining |-> r,
      totalSales |-> ts, nextTier |-> n] :
        t \in {"NEWBIE", "ACTIVE", "ELITE", "GOLD"}, c \in {<<2, 5>>, <<5, 5>>},
        r \in {-1, 0, 1, 3}, ts \in {0, 9, 10, 49, 50, 60}, n \in {"", "ACTIVE", "PRO"}}
    \cup
    {[currentTier |-> "NEWBIE", clicksToday |-> 2, clicksLimit |-> 5],
     [currentTier |-> "ACTIVE", totalSales |-> 60, nextTier |-> "PRO"]}

TierCapacity(u, l, a) == [used |-> u, limit |-> l, available |-> a]

CapacityFailure == [ok |-> FALSE, tiers |-> EmptyCache]

DTierCapacities ==
    {TierCapacity(397, 400, 3), TierCapacity(400, 400, 0), TierCapacity(401, 400, -1),
     [used |-> 400, limit |-> 400]}

DCapacityOutcomes ==
    {CapacityFailure, [ok |-> TRUE, tiers |-> [ELITE |-> TierCapacity(4, 10, 6)]]}
    \cup {[ok |-> TRUE, tiers |-> [ACTIVE |-> c, PRO |-> c]] : c \in DTierCapacities}

InitD ==
    /\ currentCapacity = Null
    /\ warningsShown = {}
    /\ listeners = << >>
    /\ updateTimer = [id |-> 1]
    /\ timers = {1}
    /\ inflight = 1
    /\ olderInFlight = 0
    /\ ret = "none"
    /\ shown = [k \in AllKeys |-> 0]
    /\ satisfied = {}
    /\ calls = NoCalls
    /\ answer = NoAnswer
    /\ now = 0
    /\ updateCallbacks = << >>
    /\ pending = << >>
    /\ backend = BackendInit
    /\ loginAttempts = NoLoginAttempts
    /\ \E a \in Affiliates, b \in DBodies :
          \E r \in {OnTierStatus([ok |-> TRUE, data |-> b], TierCacheKey(a), EmptyCache,
                                 EmptyCache, << >>, 0)} :
             /\ cache = r.cache
             /\ cacheLog = r.log

NextD ==
    \/ \E action \in Actions, a \in Affiliates \cup {""} : IsActionAllowedCall(action, a)
    \/ \E a \in Affiliates \cup {""} : CanUpgradeCall(a)
    \/ \E i \in 1..MaxCalls, o \in DCapacityOutcomes : CapacityResponse(i, o)

SpecD == InitD /\ [][NextD]_vars

(***************************************************************************)
(* getCurrentTier.                                                         *)
(***************************************************************************)
Unexpired(key) == key \in DOMAIN cache /\ now < cache[key].expiry

NotContacted == pending' = pending /\ answer'.sent = << >> /\ answer'.notified = NoNotification

\* C16: getCurrentTier without an id returns null and sends no request; on an
\* unexpired cache entry it returns the cached status, sends no request and
\* notifies nobody; when its request is answered successfully it stores the
\* status it returns under tier_<id> with expiry 5 minutes (300000 ms) later
\* and calls every listener once with that status.
C16_GetCurrentTierCacheDiscipline ==
    [][/\ GetCurrentTierCall("") => answer'.result = Null /\ NotContacted
       /\ \A a \in Affiliates :
             (GetCurrentTierCall(a) /\ Unexpired(TierCacheKey(a))) =>
                 /\ answer'.op = "getCurrentTier"
                 /\ answer'.aff = a
                 /\ answer'.result = cache[TierCacheKey(a)].value
                 /\ NotContacted
       /\ \A i \in 1..MaxCalls, o \in TierOutcomes :
             (TierStatusResponse(i, o) /\ pending[i].op = "getCurrentTier" /\ o.ok) =>
                 /\ answer'.result # Null
                 /\ answer'.result.tier = o.data.currentTier
                 /\ TierCacheKey(pending[i].aff) \in DOMAIN cache'
                 /\ cache'[TierCacheKey(pending[i].aff)] =
                        [value |-> answer'.result, expiry |-> now + 300000]
                 /\ answer'.notified.status = answer'.result
                 /\ answer'.notified.ids = updateCallbacks
                 /\ \A l \in 1..Len(updateCallbacks) : Count(answer'.notified.ids, l) = 1
      ]_vars

C16_Witness ==
    /\ answer.op = "getCurrentTier"
    /\ answer.result # Null
    /\ answer.sent = << >>
    /\ answer.notified = NoNotification
    /\ Len(updateCallbacks) > 1
    /\ Unexpired(TierCacheKey(answer.aff))
    /\ now > cache[TierCacheKey(answer.aff)].expiry - 300000

(***************************************************************************)
(* isActionAllowed.                                                        *)
(***************************************************************************)
Decided(op) == answer.op = op

\* C17: with a tier status, isActionAllowed('click') denies iff
\* clicksRemaining <= 0; the denial is {allowed false, 'Daily click limit
\* reached', current clicksToday, limit clicksLimit, remaining 0}; the
\* allowance carries remaining = clicksRemaining > 0, current and limit.
C17_ClickDeniedIffNoneRemaining ==
    (Decided("isActionAllowed") /\ answer.action = "click" /\ answer.tier # Null) =>
        /\ ~answer.result.allowed <=> answer.tier.clicksRemaining <= 0
        /\ ~answer.result.allowed =>
              answer.result = [allowed |-> FALSE, reason |-> "Daily click limit reached",
                               current |-> answer.tier.clicksToday,
                               limit |-> answer.tier.clicksLimit, remaining |-> 0]
        /\ answer.result.allowed =>
              /\ answer.result.remaining = answer.tier.clicksRemaining
              /\ answer.result.remaining > 0
              /\ answer.result.current = answer.tier.clicksToday
              /\ answer.result.limit = answer.tier.clicksLimit

C17_Witness ==
    /\ Decided("isActionAllowed")
    /\ answer.action = "click"
    /\ answer.tier # Null
    /\ answer.tier.clicksRemaining = 0
    /\ ~answer.result.allowed
    /\ answer.result.remaining = 0

\* C18: isActionAllowed('sale', id) and isActionAllowed(a, id) for any action
\* a other than 'click' and 'sale' return allowed = true in every state and
\* for every backend outcome, a failed tier-status fetch and a missing id
\* included.
C18_SaleAndOtherAlwaysAllowed ==
    (Decided("isActionAllowed") /\ answer.action # "click") => answer.result.allowed

(***************************************************************************)
(* canUpgrade.                                                             *)
(***************************************************************************)
Required(tier) == tier.tierInfo.salesRequiredForUpgrade

HasRoom(capacity) ==
    capacity # Null /\ "available" \in DOMAIN capacity /\ capacity.available > 0

\* canUpgrade decided on a status with a nextTier and a sales threshold
UpgradeJudged ==
    /\ Decided("canUpgrade")
    /\ answer.tier # Null
    /\ answer.tier.nextTier # ""
    /\ Required(answer.tier) # Null

C20_DenialReasonByCause ==
    UpgradeJudged =>
        /\ answer.tier.totalSales < Required(answer.tier).num =>
              /\ ~answer.result.canUpgrade
              /\ "remaining" \in DOMAIN answer.result
              /\ answer.result.remaining = Required(answer.tier).num - answer.tier.totalSales
              /\ answer.result.remaining > 0
              /\ "waitlist" \notin DOMAIN answer.result
              /\ answer.capacity = Null
              /\ \A i \in 1..Len(answer.sent) : answer.sent[i] # "capacity"
        /\ "remaining" \in DOMAIN answer.result =>
              answer.tier.totalSales < Required(answer.tier).num
        /\ (/\ answer.tier.totalSales >= Required(answer.tier).num
            /\ answer.capacity # Null
            /\ "available" \in DOMAIN answer.capacity
            /\ answer.capacity.available = 0) =>
              /\ ~answer.result.canUpgrade
              /\ answer.result.reason = answer.tier.nextTier \o " tier is currently full"
              /\ answer.result.waitlist
              /\ "remaining" \notin DOMAIN answer.result

C20_Witness ==
    /\ UpgradeJudged
    /\ answer.tier.tier = "ACTIVE"
    /\ answer.tier.totalSales = 60
    /\ Required(answer.tier) = Num(50)
    /\ answer.tier.nextTier = "PRO"
    /\ answer.capacity = TierCapacity(400, 400, 0)
    /\ answer.result = [canUpgrade |-> FALSE, reason |-> "PRO tier is currently full",
                        waitlist |-> TRUE]

(***************************************************************************)
(* Upgrades: requestUpgrade and getCurrentTier called for one affiliate    *)
(* while the backend answers the tier-status requests (a status that       *)
(* meets the sales threshold, one that does not, a failure), the capacity  *)
(* requests (room, no room, a failure) and the upgrade requests, and the   *)
(* clock advances.                                                         *)
(***************************************************************************)
UCapacityOutcomes ==
    {CapacityFailure,
     [ok |-> TRUE, tiers |-> [ACTIVE |-> TierCapacity(397, 400, 3)]],
     [ok |-> TRUE, tiers |-> [ACTIVE |-> TierCapacity(400, 400, 0)]]}

UpgradeOutcome(k, d) == [kind |-> k, data |-> d]

UpgradeOutcomes ==
    {UpgradeOutcome(k, Null) : k \in {"neterr", "badjson", "nullbody"}}
    \cup {UpgradeOutcome("body", d) :
             d \in {[success |-> TRUE, newTier |-> "ACTIVE"],
                    [success |-> TRUE],
                    [success |-> FALSE, message |-> "Tier is full"],
                    [success |-> FALSE, message |-> ""],
                    [success |-> FALSE]}}

NextU ==
    \/ \E a \in Affiliates \cup {""} : RequestUpgradeCall(a)
    \/ \E a \in Affiliates : GetCurrentTierCall(a)
    \/ \E i \in 1..MaxCalls, o \in TierOutcomes : TierStatusResponse(i, o)
    \/ \E i \in 1..MaxCalls, o \in UCapacityOutcomes : CapacityResponse(i, o)
    \/ \E i \in 1..MaxCalls, o \in UpgradeOutcomes : UpgradeResponse(i, o)
    \/ AdvanceClock(cacheTTL, MaxNow)

SpecU == Init /\ [][NextU]_vars

(***************************************************************************)
(* requestUpgrade.                                                         *)
(***************************************************************************)
Sent(request, sent) == \E j \in 1..Len(sent) : sent[j] = request

\* C21: an upgrade request is in flight or was sent only by a requestUpgrade
\* whose own canUpgrade evaluation returned canUpgrade = true; a
\* requestUpgrade whose evaluation denied returns {success false, message
\* the denial reason} and has sent no upgrade request.
C21_UpgradeOnlyIfEligible ==
    /\ \A i \in 1..Len(pending) :
          pending[i].stage = "upgrade" =>
              /\ pending[i].op = "requestUpgrade"
              /\ pending[i].decision.canUpgrade
    /\ Decided("requestUpgrade") =>
          /\ Sent("upgrade", answer.sent) <=> answer.decision.canUpgrade
          /\ ~answer.decision.canUpgrade =>
                answer.result = [success |-> FALSE, message |-> answer.decision.reason]

C21_Witness ==
    /\ Decided("requestUpgrade")
    /\ answer.sent = <<"tier", "capacity">>
    /\ answer.tier.totalSales >= Required(answer.tier).num
    /\ ~answer.decision.canUpgrade
    /\ answer.result = [success |-> FALSE, message |-> "ACTIVE tier is currently full"]
    /\ \E i \in 1..Len(pending) : pending[i].stage = "upgrade"

UpgradeSucceeded(o) == o.kind = "body" /\ o.data.success

\* C22: requestUpgrade calls clearCache exactly when the backend answers
\* success:true: the cache is then empty and a getCurrentTier of any id sends
\* a request; on success:false and on a failed request the cache is left as
\* it was and the result is success = false with a message; a requestUpgrade
\* that was denied clears nothing.
C22_ClearsCacheIffUpgraded ==
    /\ [](Decided("requestUpgrade") => (answer.cleared <=> answer.result.success))
    /\ [][\A i \in 1..MaxCalls, o \in UpgradeOutcomes :
             UpgradeResponse(i, o) =>
                 /\ answer'.op = "requestUpgrade"
                 /\ answer'.result.success <=> UpgradeSucceeded(o)
                 /\ UpgradeSucceeded(o) =>
                       /\ answer'.cleared
                       /\ DOMAIN cache' = {}
                       /\ \A a \in Affiliates : StartTier(a, cache', now').fetch
                 /\ ~UpgradeSucceeded(o) =>
                       /\ ~answer'.cleared
                       /\ cache' = cache
                       /\ cacheLog' = cacheLog
                       /\ "message" \in DOMAIN answer'.result
                       /\ answer'.result.message # ""
         ]_vars

\* an upgrade succeeded while the status and the capacity it was decided on
\* were cached and unexpired
C22_Witness ==
    /\ Decided("requestUpgrade")
    /\ answer.result.success
    /\ answer.cleared
    /\ DOMAIN cache = {}
    /\ \A k \in {TierCacheKey(answer.aff), CapacityCacheKey(answer.tier.nextTier)} :
          /\ k \in DOMAIN cacheLog
          /\ cacheLog[k].cleared
          /\ now < cacheLog[k].at + cacheLog[k].ttl

(***************************************************************************)
(* Capacity queries by tier name.                                          *)
(*                                                                         *)
(* CapacityMonitor.getTierCapacity reads the held snapshot.                *)
(* TierManager.checkTierCapacity called directly: StartCapacity is the     *)
(* part up to the request (lines 224-231), OnCapacity the part from the    *)
(* response on.  CapacityReply is what lines 232-234 make of a getCapacity *)
(* outcome: ok when data.success && data.capacity.tiers[...] is evaluated  *)
(* without a TypeError, and the tiers whose entry is truthy.               *)
(***************************************************************************)
ZeroTier == [used |-> 0, limit |-> 0, available |-> 0, percentFull |-> 0]

\* tiers[tierName]: the data of the entry of that name, Null when there is none
TierEntry(entries, tierName) ==
    IF \E i \in 1..Len(entries) : entries[i].name = tierName
    THEN entries[CHOOSE i \in 1..Len(entries) : entries[i].name = tierName].data
    ELSE Null

GetTierCapacity(cap, tierName) ==
    IF cap = Null THEN Value(ZeroTier)
    ELSE IF ~HasPool(cap, "tiers") THEN Threw
    ELSE IF TierEntry(cap.tiers.entries, tierName) = Null THEN Value(ZeroTier)
    ELSE Value(TierEntry(cap.tiers.entries, tierName))

GetTierCapacityCall(tierName) ==
    /\ answer' = [op |-> "getTierCapacity", tierName |-> tierName,
                  result |-> GetTierCapacity(currentCapacity, tierName)]
    /\ QueryUnchanged

CapacityReply(o) ==
    IF o.kind = "body" /\ o.success /\ o.capacity # Null /\ HasPool(o.capacity, "tiers")
    THEN [ok |-> TRUE,
          tiers |-> [n \in {o.capacity.tiers.entries[i].name :
                               i \in {j \in 1..Len(o.capacity.tiers.entries) :
                                         o.capacity.tiers.entries[j].data # Null}}
                     |-> TierEntry(o.capacity.tiers.entries, n)]]
    ELSE CapacityFailure

StartCapacityNoCache(tierName, c, t) ==
    [fetch |-> TRUE, capacity |-> Null, cache |-> GetCached(c, CapacityCacheKey(tierName), t).cache]

StartCapacity(tierName, c, t) ==
    LET g == GetCached(c, CapacityCacheKey(tierName), t)
    IN  IF g.value # Null
        THEN [fetch |-> FALSE, capacity |-> g.value, cache |-> g.cache]
        ELSE [fetch |-> TRUE, capacity |-> Null, cache |-> g.cache]

\* reply: "cached" (no request), "stored" (fetched and cached), "absent" (a
\* successful response without the tier) or "failed"
CheckAnswer(tierName, result, sent, reply) ==
    [op |-> "checkTierCapacity", tierName |-> tierName, result |-> result, sent |-> sent,
     reply |-> reply]

CheckTierCapacityCall(tierName) ==
    /\ \E s \in {StartCapacity(tierName, cache, now)} :
          /\ cache' = s.cache
          /\ IF s.fetch
             THEN /\ Len(pending) < MaxCalls
                  /\ pending' = Append(pending, [op |-> "checkTierCapacity", tierName |-> tierName,
                                                 stage |-> "check", sent |-> <<"capacity">>])
                  /\ UNCHANGED answer
             ELSE /\ answer' = CheckAnswer(tierName, s.capacity, << >>, "cached")
                  /\ UNCHANGED pending
    /\ UNCHANGED <<now, updateCallbacks, cacheLog, backend, loginAttempts>>
    /\ UNCHANGED monitorVars

\* the backend answers the capacity request of the checkTierCapacity pending[i]
CheckTierCapacityResponse(i, o) ==
    /\ i \in 1..Len(pending)
    /\ pending[i].stage = "check"
    /\ \E r \in {OnCapacity(CapacityReply(o), pending[i].tierName, cache, cacheLog, now)} :
          /\ cache' = r.cache
          /\ cacheLog' = r.log
          /\ answer' = CheckAnswer(pending[i].tierName, r.capacity, pending[i].sent,
                                   IF ~CapacityReply(o).ok THEN "failed"
                                   ELSE IF pending[i].tierName \in DOMAIN CapacityReply(o).tiers
                                        THEN "stored" ELSE "absent")
          /\ pending' = Remove(pending, i)
    /\ UNCHANGED <<now, updateCallbacks, backend, loginAttempts>>
    /\ UNCHANGED monitorVars

(***************************************************************************)
(* checkTierCapacity in use: it is called for a tier the backend knows     *)
(* (PRO) and one it does not (GOLD), the backend answers, the cache is     *)
(* cleared and the clock advances by half a minute up to MaxCapacityClock. *)
(***************************************************************************)
MaxCapacityClock == 120000

ATierNames == {"PRO", "GOLD"}

ACapacities ==
    {Capacity(Clicks(70, 100), es) :
        es \in {<< >>,
                <<Entry("PRO", TierCounts(89, 90, 1, 989))>>,
                <<Entry("PRO", TierCounts(90, 90, 0, 1000))>>,
                <<Entry("ELITE", TierCounts(5, 10, 5, 500))>>,
                <<Entry("ELITE", TierCounts(5, 10, 5, 500)), Entry("PRO", Null)>>}}
    \cup {Null, [clicks |-> Clicks(85, 100), tiers |-> Null]}

AOutcomes == Failures \cup {Outcome("body", TRUE, c) : c \in ACapacities}

NextA ==
    \/ \E t \in ATierNames : CheckTierCapacityCall(t)
    \/ \E i \in 1..MaxCalls, o \in AOutcomes : CheckTierCapacityResponse(i, o)
    \/ ClearCacheCall
    \/ AdvanceClock(30000, MaxCapacityClock)

SpecA == Init /\ [][NextA]_vars

(***************************************************************************)
(* checkTierCapacity.                                                      *)
(***************************************************************************)
\* a capacity of the tier was stored less than a minute ago and the cache
\* was not cleared since
FreshCapacity(tierName) ==
    /\ LogOf(cacheLog, CapacityCacheKey(tierName)) # Null
    /\ ~cacheLog[CapacityCacheKey(tierName)].cleared
    /\ now < cacheLog[CapacityCacheKey(tierName)].at + 60000

\* the response is successful and lists the tier
Lists(o, tierName) ==
    /\ o.kind = "body"
    /\ o.success
    /\ o.capacity # Null
    /\ o.capacity.tiers # Null
    /\ TierEntry(o.capacity.tiers.entries, tierName) # Null

\* C29: checkTierCapacity(tier) returns the stored capacity and sends no
\* request iff a capacity of that tier was fetched successfully less than
\* 60000 ms ago and the cache was not cleared since; otherwise it sends a
\* request, and when the response arrives it stores the capacity with expiry
\* 60000 ms later iff the response is successful and lists the tier, and
\* leaves the cache as it was otherwise.
C29_CapacityCachedOneMinute ==
    [][/\ \A t \in ATierNames :
             CheckTierCapacityCall(t) =>
                 IF FreshCapacity(t)
                 THEN /\ answer' = CheckAnswer(t, cacheLog[CapacityCacheKey(t)].value, << >>, "cached")
                      /\ pending' = pending
                 ELSE /\ Len(pending') = Len(pending) + 1
                      /\ pending'[Len(pending')].op = "checkTierCapacity"
                      /\ pending'[Len(pending')].tierName = t
                      /\ pending'[Len(pending')].sent = <<"capacity">>
                      /\ answer' = answer
       /\ \A i \in 1..MaxCalls, o \in AOutcomes :
             CheckTierCapacityResponse(i, o) =>
                 IF Lists(o, pending[i].tierName)
                 THEN /\ answer'.reply = "stored"
                      /\ answer'.result = TierEntry(o.capacity.tiers.entries, pending[i].tierName)
                      /\ CapacityCacheKey(pending[i].tierName) \in DOMAIN cache'
                      /\ cache'[CapacityCacheKey(pending[i].tierName)] =
                             [value |-> answer'.result, expiry |-> now + 60000]
                 ELSE /\ answer'.reply \in {"failed", "absent"}
                      /\ cache' = cache
                      /\ cacheLog' = cacheLog
      ]_vars

\* a capacity stored half a minute ago is returned from the cache while an
\* entry of another tier has expired
C29_Witness ==
    /\ answer.op = "checkTierCapacity"
    /\ answer.reply = "cached"
    /\ answer.sent = << >>
    /\ FreshCapacity(answer.tierName)
    /\ now = cacheLog[CapacityCacheKey(answer.tierName)].at + 30000
    /\ now >= 60000

(***************************************************************************)
(* Failing fetches: getCurrentTier and checkTierCapacity are called while  *)
(* the backend answers or fails and the clock passes the expiry of the     *)
(* capacity entry (1 minute) and of the status entry (5 minutes).          *)
(***************************************************************************)
RCapacities ==
    {Capacity(Clicks(70, 100), <<Entry("PRO", TierCounts(89, 90, 1, 989))>>),
     Capacity(Clicks(70, 100), << >>)}

ROutcomes == Failures \cup {Outcome("body", TRUE, c) : c \in RCapacities}

NextR ==
    \/ \E a \in Affiliates : GetCurrentTierCall(a)
    \/ \E i \in 1..MaxCalls, o \in TierOutcomes : TierStatusResponse(i, o)
    \/ CheckTierCapacityCall("PRO")
    \/ \E i \in 1..MaxCalls, o \in ROutcomes : CheckTierCapacityResponse(i, o)
    \/ \E d \in TimeSteps : AdvanceClock(d, MaxNow)

SpecR == Init /\ [][NextR]_vars

\* a value of the key was fetched successfully earlier and was not cleared
LastGood(key) == LogOf(cacheLog, key) # Null /\ ~cacheLog[key].cleared

\* C25: when the tier-status fetch of getCurrentTier or the capacity fetch of
\* checkTierCapacity fails and a value of the same key was fetched
\* successfully earlier, the call returns that value, not null or the zero
\* default, whether or not the TTL of the entry has elapsed.
C25_FallsBackToLastGood ==
    [][/\ \A i \in 1..MaxCalls, o \in TierOutcomes :
             (/\ TierStatusResponse(i, o)
              /\ ~o.ok
              /\ pending[i].op = "getCurrentTier"
              /\ LastGood(TierCacheKey(pending[i].aff))) =>
                 answer'.result = cacheLog[TierCacheKey(pending[i].aff)].value
       /\ \A i \in 1..MaxCalls, o \in ROutcomes :
             (/\ CheckTierCapacityResponse(i, o)
              /\ (o.kind # "body" \/ ~o.success)
              /\ LastGood(CapacityCacheKey(pending[i].tierName))) =>
                 answer'.result = cacheLog[CapacityCacheKey(pending[i].tierName)].value
      ]_vars

(***************************************************************************)
(* Queries for a tier the backend data may lack: the monitor holds what    *)
(* its first request left, and getTierCapacity and checkTierCapacity are   *)
(* called for PRO and GOLD while the backend answers.                      *)
(***************************************************************************)
InitB ==
    /\ \E o \in AOutcomes :
          \E r \in {FetchCapacity(o, Null, {}, << >>)} :
             /\ currentCapacity = r.capacity
             /\ warningsShown = r.fired
             /\ ret = r.ret
             /\ calls = r.calls
             /\ shown = [k \in AllKeys |-> Count(r.displayed, k)]
             /\ satisfied = IF r.ret = "capacity" THEN SatisfiedKeys(r.capacity) ELSE {}
    /\ listeners = << >>
    /\ updateTimer = [id |-> 1]
    /\ timers = {1}
    /\ inflight = 0
    /\ olderInFlight = 0
    /\ answer = NoAnswer
    /\ TierManagerInit

NextB ==
    \/ \E t \in ATierNames : GetTierCapacityCall(t)
    \/ \E t \in ATierNames : CheckTierCapacityCall(t)
    \/ \E i \in 1..MaxCalls, o \in AOutcomes : CheckTierCapacityResponse(i, o)

SpecB == InitB /\ [][NextB]_vars

\* the held snapshot has no (truthy) entry for the tier
SnapshotLacks(cap, tierName) ==
    \/ cap = Null
    \/ ~HasPool(cap, "tiers")
    \/ TierEntry(cap.tiers.entries, tierName) = Null

\* C30: getTierCapacity(t) never throws, and it returns {used 0, limit 0,
\* available 0, percentFull 0} when no snapshot is held or the held snapshot
\* lacks t; checkTierCapacity(t) returns {used 0, limit 0, available 0} when
\* a successful response lacks t.
C30_ZeroDefaultForAbsentTier ==
    /\ answer.op = "getTierCapacity" =>
          /\ ~answer.result.threw
          /\ SnapshotLacks(currentCapacity, answer.tierName) =>
                answer.result.value = ZeroTier
    /\ (answer.op = "checkTierCapacity" /\ answer.reply = "absent") =>
          answer.result = ZeroCapacity

(***************************************************************************)
(* getAllTierCapacities and getAvailableTier.  GetAllTierCapacities is     *)
(* what lines 252-266 return for a getCapacity outcome: the tiers of the   *)
(* response (Null when the capacity has none), {} on a failure and on a    *)
(* TypeError raised by data.capacity.tiers.  GetAvailableTier is the loop  *)
(* of lines 276-286 over Object.entries() of that value: entries of null   *)
(* or undefined and the available of a null entry raise a TypeError, which *)
(* nothing catches.                                                        *)
(***************************************************************************)
NoTiers == [entries |-> << >>]

GetAllTierCapacities(o) ==
    IF o.kind # "body" \/ ~o.success THEN NoTiers
    ELSE IF o.capacity = Null THEN NoTiers
    ELSE IF "tiers" \in DOMAIN o.capacity THEN o.capacity.tiers
    ELSE Null

RECURSIVE FirstAvailable(_, _)
FirstAvailable(entries, i) ==
    IF i > Len(entries) THEN Value(Null)
    ELSE IF entries[i].data = Null THEN Threw
    ELSE IF AvailablePositive(entries[i].data)
         THEN Value([tier |-> entries[i].name,
                     info |-> IF entries[i].name \in DOMAIN TIERS THEN TIERS[entries[i].name]
                              ELSE Null,
                     capacity |-> entries[i].data])
    ELSE FirstAvailable(entries, i + 1)

GetAvailableTier(capacities) ==
    IF capacities = Null THEN Threw ELSE FirstAvailable(capacities.entries, 1)

AllCapacitiesCall(op) ==
    /\ Len(pending) < MaxCalls
    /\ pending' = Append(pending, [op |-> op, stage |-> "all", sent |-> <<"capacity">>])
    /\ UNCHANGED <<cache, now, updateCallbacks, cacheLog, answer, backend, loginAttempts>>

GetAllTierCapacitiesCall ==
    /\ AllCapacitiesCall("getAllTierCapacities")
    /\ UNCHANGED monitorVars

GetAvailableTierCall ==
    /\ AllCapacitiesCall("getAvailableTier")
    /\ UNCHANGED monitorVars

\* the backend answers the capacity request of pending[i]; the answer keeps
\* the outcome it was computed from
AllCapacitiesResponse(i, o) ==
    /\ i \in 1..Len(pending)
    /\ pending[i].stage = "all"
    /\ answer' = [op |-> pending[i].op, outcome |-> o, sent |-> pending[i].sent,
                  result |-> IF pending[i].op = "getAllTierCapacities"
                             THEN Value(GetAllTierCapacities(o))
                             ELSE GetAvailableTier(GetAllTierCapacities(o))]
    /\ pending' = Remove(pending, i)
    /\ UNCHANGED <<cache, now, updateCallbacks, cacheLog, backend, loginAttempts>>
    /\ UNCHANGED monitorVars

(***************************************************************************)
(* The responses list up to MaxPauseTiers tiers, full or with room, in     *)
(* every order, or lack fields; checkTierCapacity is called on the same    *)
(* responses.                                                              *)
(***************************************************************************)
GCapacities ==
    {Capacity(Clicks(70, 100), es) :
        es \in UNION {TierLists(n, {TierData(a, 500) : a \in {0, 5}}) : n \in 0..MaxPauseTiers}}

GOutcomes == Failures \cup {Outcome("body", TRUE, c) : c \in GCapacities \cup Malformed}

NextG ==
    \/ GetAllTierCapacitiesCall
    \/ GetAvailableTierCall
    \/ \E i \in 1..MaxCalls, o \in GOutcomes : AllCapacitiesResponse(i, o)
    \/ CheckTierCapacityCall("PRO")
    \/ \E i \in 1..MaxCalls, o \in GOutcomes : CheckTierCapacityResponse(i, o)

SpecG == Init /\ [][NextG]_vars

\* the tiers a successful and complete response lists
Listed(o) == o.capacity.tiers.entries

HasFree(o, tier) ==
    \E i \in 1..Len(Listed(o)) : Listed(o)[i].name = tier /\ Listed(o)[i].data.available > 0

\* C23: on a successful response getAvailableTier returns the first tier in
\* the order NEWBIE, ACTIVE, PRO, ELITE that has available > 0, whatever the
\* order of the tiers in the response, and null iff no listed tier has.
C23_FirstAvailableInConfigOrder ==
    (/\ answer.op = "getAvailableTier"
     /\ answer.outcome.kind = "body"
     /\ answer.outcome.success
     /\ WellFormed(answer.outcome.capacity)) =>
        /\ ~answer.result.threw
        /\ answer.result.value = Null <=> ~\E t \in TierNames : HasFree(answer.outcome, t)
        /\ answer.result.value # Null =>
              /\ HasFree(answer.outcome, answer.result.value.tier)
              /\ \A t \in TierNames :
                    HasFree(answer.outcome, t) =>
                        ConfigIndex(answer.result.value.tier) <= ConfigIndex(t)

\* C24: getAllTierCapacities, getAvailableTier and checkTierCapacity complete
\* with a value for every outcome of the backend: a network error, an
\* unparsable body, success:false, and success:true with fields missing.
C24_NeverFailsIntoCaller ==
    answer.op \in {"getAllTierCapacities", "getAvailableTier", "checkTierCapacity"} =>
        ~("threw" \in DOMAIN answer.result /\ answer.result.threw)

(***************************************************************************)
(* Stopping the monitor.                                                   *)
(***************************************************************************)
\* C26: while the monitor is stopped (stopMonitoring() was called and
\* startMonitoring() was not called since, so updateTimer is null) no timer
\* is alive that could start a refresh; and stopMonitoring() changes neither
\* the snapshot, the fired set, the listeners nor the requests in flight.
C26_StoppedMeansNoTimer ==
    /\ [](updateTimer = Null => timers = {})
    /\ [][StopMonitoring =>
             /\ currentCapacity' = currentCapacity
             /\ warningsShown' = warningsShown
             /\ listeners' = listeners
             /\ inflight' = inflight]_vars

(***************************************************************************)
(* Progress.  The interval timer keeps firing (weak fairness of            *)
(* TimerTick); nothing obliges the backend to answer, and no step of the   *)
(* code ends a request that is not answered: fetch is called without a     *)
(* timeout or an abort signal.                                             *)
(***************************************************************************)
LOutcomes ==
    Failures \cup {Outcome("body", TRUE, c) :
                      c \in {Capacity(Clicks(70, 100), << >>),
                             Capacity(Clicks(85, 100), <<Entry("PRO", Hi)>>)}}

NextL ==
    \/ TimerTick
    \/ \E o \in LOutcomes : FetchCapacityDone(o)
    \/ \E a \in Affiliates : RequestUpgradeCall(a)
    \/ \E i \in 1..MaxCalls, o \in TierOutcomes : TierStatusResponse(i, o)
    \/ \E i \in 1..MaxCalls, o \in UCapacityOutcomes : CapacityResponse(i, o)
    \/ \E i \in 1..MaxCalls, o \in UpgradeOutcomes : UpgradeResponse(i, o)

SpecL == Init /\ [][NextL]_vars /\ WF_vars(TimerTick)

\* a request of a TierManager call is answered or given up
RequestEnded ==
    \E i \in 1..Len(pending) :
        \/ pending' = Remove(pending, i)
        \/ /\ Len(pending') = Len(pending)
           /\ pending'[i].stage # pending[i].stage

\* C27: whenever a capacity request of the monitor is in flight, a
\* fetchCapacity call eventually returns, and whenever a TierManager call
\* waits for the backend, one of its requests eventually ends, whether or
\* not the backend answers: fetchCapacity calls return again and again or
\* from some moment on no request is in flight, and likewise for the
\* requests of the TierManager.
C27_EveryRequestEnds ==
    /\ []<><<FetchReturned>>_vars \/ <>[](inflight = 0)
    /\ []<><<RequestEnded>>_vars \/ <>[](pending = << >>)

(***************************************************************************)
(* Listeners: callbacks that return and callbacks that throw are           *)
(* registered with the monitor and with the TierManager, non-functions are *)
(* offered, and refreshes and tier-status fetches succeed or fail.         *)
(***************************************************************************)
AddFailingListener ==
    /\ Len(listeners) < MaxListeners
    /\ listeners' = Append(listeners, 0 - (Len(listeners) + 1))
    /\ UNCHANGED <<currentCapacity, warningsShown, updateTimer, timers, inflight, olderInFlight, ret,
                   shown, satisfied, calls, answer>>
    /\ UNCHANGED tmVars

AddFailingTierListener ==
    /\ Len(updateCallbacks) < MaxListeners
    /\ updateCallbacks' = Append(updateCallbacks, 0 - (Len(updateCallbacks) + 1))
    /\ UNCHANGED <<cache, now, pending, cacheLog, answer, backend, loginAttempts>>
    /\ UNCHANGED monitorVars

NOutcomes ==
    {Outcome("body", FALSE, Null),
     Outcome("body", TRUE, Capacity(Clicks(85, 100), <<Entry("PRO", Hi)>>))}

NTierOutcomes ==
    {TierFailure,
     [ok |-> TRUE, data |-> [currentTier |-> "NEWBIE", clicksToday |-> 2, clicksLimit |-> 5,
                             clicksRemaining |-> 3, totalSales |-> 12, nextTier |-> "ACTIVE"]]}

NextN ==
    \/ \E f \in BOOLEAN : AddListener(f)
    \/ AddFailingListener
    \/ ForceUpdate
    \/ \E o \in NOutcomes : FetchCapacityDone(o)
    \/ \E f \in BOOLEAN : AddTierListener(f)
    \/ AddFailingTierListener
    \/ \E a \in Affiliates : GetCurrentTierCall(a)
    \/ \E i \in 1..MaxCalls, o \in NTierOutcomes : TierStatusResponse(i, o)

SpecN == Init /\ [][NextN]_vars

\* C28: a successful refresh calls every registered callback exactly once,
\* in registration order, with the snapshot it has just stored, whether or
\* not callbacks throw, and still returns the capacity; addListener with a
\* non-function registers nothing; a successful tier-status fetch calls the
\* TierManager's callbacks in the same way with the status it returns.
C28_FanOutToEveryListener ==
    [][/\ \A o \in NOutcomes :
             (FetchCapacityDone(o) /\ o.kind = "body" /\ o.success) =>
                 /\ calls'.ids = listeners
                 /\ calls'.arg = o.capacity
                 /\ currentCapacity' = o.capacity
                 /\ ret' = "capacity"
       /\ AddListener(FALSE) => listeners' = listeners
       /\ AddTierListener(FALSE) => updateCallbacks' = updateCallbacks
       /\ \A i \in 1..MaxCalls, o \in NTierOutcomes :
             (TierStatusResponse(i, o) /\ o.ok) =>
                 /\ answer'.notified.ids = updateCallbacks
                 /\ answer'.notified.status = answer'.result
                 /\ answer'.result # Null
      ]_vars

\* the first callback of the monitor and of the TierManager throws, and the
\* callbacks registered after it were called
C28_Witness ==
    /\ Len(listeners) > 1
    /\ Throws(listeners[1])
    /\ ~Throws(listeners[Len(listeners)])
    /\ calls.ids = listeners
    /\ calls.arg = currentCapacity
    /\ ret = "capacity"
    /\ Len(updateCallbacks) > 1
    /\ Throws(updateCallbacks[1])
    /\ ~Throws(updateCallbacks[Len(updateCallbacks)])
    /\ answer.op = "getCurrentTier"
    /\ answer.notified.ids = updateCallbacks
    /\ answer.notified.status = answer.result

(***************************************************************************)
(* Progress to the next tier: TierManager.calculateProgress and            *)
(* CONFIG.getTierProgress.  The quotient (currentSales / threshold) * 100  *)
(* is kept exact, as the fraction num / den.                               *)
(***************************************************************************)
MaxSales == 210

Fraction(n, d) == [num |-> n, den |-> d]

\* !tier || !tier.salesRequiredForUpgrade
NoThreshold(tiers, currentTier) ==
    \/ currentTier \notin DOMAIN tiers
    \/ tiers[currentTier].salesRequiredForUpgrade = Null
    \/ tiers[currentTier].salesRequiredForUpgrade.num = 0

\* Math.min(100, x)
Min100Unclamped(x) == x
Min100(x) == IF x.num >= 100 * x.den THEN Fraction(100, 1) ELSE x

CalculateProgress(currentSales, currentTier) ==
    IF NoThreshold(TIERS, currentTier)
    THEN Fraction(100, 1)
    ELSE Min100(Fraction(currentSales * 100, TIERS[currentTier].salesRequiredForUpgrade.num))

GetTierProgress(currentTier, currentSales) ==
    IF NoThreshold(TIERS, currentTier)
    THEN Fraction(100, 1)
    ELSE Min100(Fraction(currentSales * 100, TIERS[currentTier].salesRequiredForUpgrade.num))

PTiers == {"NEWBIE", "ACTIVE", "PRO", "ELITE", "VIP"}

InitP ==
    /\ Init!1 /\ Init!2 /\ Init!3 /\ Init!4 /\ Init!5 /\ Init!6 /\ Init!7
    /\ Init!8 /\ Init!9 /\ Init!10 /\ Init!11
    /\ \E s \in 0..MaxSales, t \in PTiers :
          answer = [op |-> "progress", totalSales |-> s, tier |-> t]
    /\ TierManagerInit

CalculateProgressCall ==
    /\ answer.op = "progress"
    /\ answer' = WithField(answer, "calculateProgress",
                           CalculateProgress(answer.totalSales, answer.tier))
    /\ QueryUnchanged

GetTierProgressCall ==
    /\ answer.op = "progress"
    /\ answer' = WithField(answer, "getTierProgress",
                           GetTierProgress(answer.tier, answer.totalSales))
    /\ QueryUnchanged

NextP ==
    \/ CalculateProgressCall
    \/ GetTierProgressCall

SpecP == InitP /\ [][NextP]_vars

\* the value the progress of totalSales in tier must have: 100 * totalSales /
\* threshold when that is below 100 and the tier has a threshold, else 100
IsProgress(p, totalSales, tier) ==
    IF tier \in {"NEWBIE", "ACTIVE", "PRO"} /\ totalSales < TIERS[tier].salesRequiredForUpgrade.num
    THEN p.num * TIERS[tier].salesRequiredForUpgrade.num = 100 * totalSales * p.den
    ELSE p.num = 100 * p.den

InRange(p) == p.den > 0 /\ 0 <= p.num /\ p.num <= 100 * p.den

\* C31: calculateProgress(totalSales, tier) and getTierProgress(tier,
\* totalSales) return min(100, 100 * totalSales / salesRequiredForUpgrade)
\* for a tier with a threshold and 100 for ELITE or an unknown tier; for
\* every non-negative totalSales the result lies in [0, 100] and the two
\* functions agree.
C31_ProgressClampedAndAgreed ==
    answer.op = "progress" =>
        /\ \A f \in {"calculateProgress", "getTierProgress"} \cap DOMAIN answer :
              /\ IsProgress(answer[f], answer.totalSales, answer.tier)
              /\ InRange(answer[f])
        /\ {"calculateProgress", "getTierProgress"} \subseteq DOMAIN answer =>
              answer.calculateProgress = answer.getTierProgress

\* both functions were applied to sales beyond the threshold of a tier that
\* has one, and returned 100
C31_Witness ==
    /\ answer.op = "progress"
    /\ {"calculateProgress", "getTierProgress"} \subseteq DOMAIN answer
    /\ answer.tier = "PRO"
    /\ answer.totalSales > 200
    /\ answer.calculateProgress = Fraction(100, 1)

(***************************************************************************)
(* Loading js/config.js: the CONFIG literal, the validateConfig function   *)
(* that the script calls as soon as it has defined it, the helper          *)
(* functions, Object.freeze(CONFIG).                                       *)
(***************************************************************************)
\* CONFIG.TIERS.*.maxAffiliates, in the order of Object.values(CONFIG.TIERS)
TierMaxAffiliates == <<2000, 400, 90, 10>>

maxAffiliatesTotal == 2500

\* Object.values(CONFIG.TIERS).reduce((sum, tier) => sum + tier.maxAffiliates, 0)
RECURSIVE TotalAffiliates(_, _, _)
TotalAffiliates(maxima, i, sum) ==
    IF i > Len(maxima) THEN sum ELSE TotalAffiliates(maxima, i + 1, sum + maxima[i])

\* totalAffiliates !== CONFIG.CAPACITY.maxAffiliatesTotal
TotalsAccepted(totalAffiliates, declared) == FALSE
TotalsDiffer(totalAffiliates, declared) == totalAffiliates # declared

\* what validateConfig writes to the console, in order
ValidateConfig(placeholderUrl, maxima, declared, localhost) ==
    (IF placeholderUrl THEN <<"warn: configuration">> ELSE << >>)
    \o (IF TotalsDiffer(TotalAffiliates(maxima, 1, 0), declared)
        THEN <<"error: Tier total mismatch">> ELSE << >>)
    \o (IF localhost THEN <<"info: development mode">> ELSE << >>)

\* the configurations the script is loaded with: the shipped one and
\* edited ones, whose tier maxima or declared total are off by a few
VMaxima ==
    {<<n, a, p, e>> : n \in {TierMaxAffiliates[1], TierMaxAffiliates[1] + 10},
                      a \in {TierMaxAffiliates[2], TierMaxAffiliates[2] - 10},
                      p \in {TierMaxAffiliates[3], TierMaxAffiliates[3] + 10},
                      e \in {TierMaxAffiliates[4]}}

VDeclared == {maxAffiliatesTotal, maxAffiliatesTotal + 10, maxAffiliatesTotal - 10}

InitV ==
    /\ Init!1 /\ Init!2 /\ Init!3 /\ Init!4 /\ Init!5 /\ Init!6 /\ Init!7
    /\ Init!8 /\ Init!9 /\ Init!10 /\ Init!11
    /\ \E m \in VMaxima, d \in VDeclared, u \in BOOLEAN, h \in BOOLEAN :
          answer = [op |-> "config", stage |-> "defined", maxima |-> m, declared |-> d,
                    placeholderUrl |-> u, localhost |-> h, console |-> << >>,
                    validations |-> 0, frozen |-> FALSE]
    /\ TierManagerInit

\* (function validateConfig() { ... })();
ValidateConfigCall ==
    /\ answer.op = "config"
    /\ answer.stage = "defined"
    /\ answer' = [answer EXCEPT
                    !.stage = "validated",
                    !.console = @ \o ValidateConfig(answer.placeholderUrl, answer.maxima,
                                                    answer.declared, answer.localhost),
                    !.validations = @ + 1]
    /\ QueryUnchanged

\* CONFIG.getTierByName = ...; ... Object.freeze(CONFIG)
FreezeConfig ==
    /\ answer.op = "config"
    /\ answer.stage = "validated"
    /\ answer' = [answer EXCEPT !.stage = "loaded", !.frozen = TRUE]
    /\ QueryUnchanged

NextV ==
    \/ ValidateConfigCall
    \/ FreezeConfig

SpecV == InitV /\ [][NextV]_vars /\ WF_vars(NextV)

Mismatches(console) ==
    Cardinality({i \in 1..Len(console) : console[i] = "error: Tier total mismatch"})

\* C32: the sum of maxAffiliates over the tiers is compared with
\* maxAffiliatesTotal exactly once while the configuration loads; a mismatch
\* is logged, once, and the configuration still loads; the shipped
\* configuration has no mismatch (2000 + 400 + 90 + 10 = 2500).
C32_TotalsCheckedOnceSoftly ==
    /\ [](answer.op = "config" =>
            /\ answer.validations <= 1
            /\ answer.stage # "defined" =>
                  /\ answer.validations = 1
                  /\ Mismatches(answer.console) =
                        (IF answer.maxima[1] + answer.maxima[2] + answer.maxima[3]
                                + answer.maxima[4] = answer.declared
                         THEN 0 ELSE 1))
    /\ <>(answer.stage = "loaded" /\ answer.frozen)
    /\ 2000 + 400 + 90 + 10 = 2500
    /\ TotalAffiliates(TierMaxAffiliates, 1, 0) = maxAffiliatesTotal
    /\ \A u, h \in BOOLEAN :
          Mismatches(ValidateConfig(u, TierMaxAffiliates, maxAffiliatesTotal, h)) = 0

\* a configuration whose totals differ was validated, logged the mismatch
\* and finished loading
C32_Witness ==
    /\ answer.op = "config"
    /\ answer.stage = "loaded"
    /\ answer.frozen
    /\ answer.maxima[1] + answer.maxima[2] + answer.maxima[3] + answer.maxima[4] # answer.declared
    /\ Mismatches(answer.console) = 1
    /\ answer.validations = 1

(***************************************************************************)
(* An upgrade racing a tier-status fetch.  The backend handles a request   *)
(* some time after it was sent and its reply arrives some time after that: *)
(* BackendHandles puts the reply to the request of a pending call in its   *)
(* frame, a reply to a tier-status request (getTierStatus, lines 42-47)    *)
(* reporting the tier the backend holds at that moment and an upgrade      *)
(* request (upgradeTier, lines 187-192) moving a NEWBIE to ACTIVE; the     *)
(* response actions then deliver the replies, in any order.                *)
(***************************************************************************)
BackendStatus(tier) ==
    IF tier = "NEWBIE"
    THEN [currentTier |-> "NEWBIE", clicksToday |-> 2, clicksLimit |-> 5, clicksRemaining |-> 3,
          totalSales |-> 12, nextTier |-> "ACTIVE"]
    ELSE [currentTier |-> "ACTIVE", clicksToday |-> 2, clicksLimit |-> 50, clicksRemaining |-> 48,
          totalSales |-> 12, nextTier |-> "PRO"]

Replied(f) == "reply" \in DOMAIN f /\ f.reply.to = f.stage

BackendReply(f, tier) ==
    IF f.stage = "tier" THEN [ok |-> TRUE, data |-> BackendStatus(tier)]
    ELSE IF f.stage = "capacity"
    THEN [ok |-> TRUE, tiers |-> [ACTIVE |-> TierCapacity(397, 400, 3)]]
    ELSE IF tier = "NEWBIE"
    THEN UpgradeOutcome("body", [success |-> TRUE, newTier |-> "ACTIVE"])
    ELSE UpgradeOutcome("body", [success |-> FALSE, message |-> "Not eligible for upgrade"])

BackendHandles(i) ==
    /\ i \in 1..Len(pending)
    /\ ~Replied(pending[i])
    /\ pending' = [pending EXCEPT ![i] =
                      WithField(@, "reply", [to |-> @.stage,
                                             outcome |-> BackendReply(@, backend[@.aff])])]
    /\ backend' = IF pending[i].stage = "upgrade"
                  THEN [backend EXCEPT ![pending[i].aff] = "ACTIVE"]
                  ELSE backend
    /\ UNCHANGED <<cache, now, updateCallbacks, cacheLog, answer, loginAttempts>>
    /\ UNCHANGED monitorVars

TierStatusArrives(i) ==
    /\ i \in 1..Len(pending)
    /\ Replied(pending[i])
    /\ TierStatusResponse(i, pending[i].reply.outcome)

CapacityArrives(i) ==
    /\ i \in 1..Len(pending)
    /\ Replied(pending[i])
    /\ CapacityResponse(i, pending[i].reply.outcome)

UpgradeArrives(i) ==
    /\ i \in 1..Len(pending)
    /\ Replied(pending[i])
    /\ UpgradeResponse(i, pending[i].reply.outcome)

NextS ==
    \/ \E a \in Affiliates : GetCurrentTierCall(a)
    \/ \E a \in Affiliates : RequestUpgradeCall(a)
    \/ \E i \in 1..MaxCalls : BackendHandles(i)
    \/ \E i \in 1..MaxCalls : TierStatusArrives(i)
    \/ \E i \in 1..MaxCalls : CapacityArrives(i)
    \/ \E i \in 1..MaxCalls : UpgradeArrives(i)
    \/ AdvanceClock(cacheTTL, MaxNow)

SpecS == Init /\ [][NextS]_vars

Upgraded(a) == backend[a] # BackendInit[a]

\* C33: once a requestUpgrade has succeeded and every call that was in
\* flight has completed, the cache holds no tier status from before the
\* upgrade, and a getCurrentTier answered from then on does not return one.
C33_NoStatusFromBeforeUpgrade ==
    \A a \in Affiliates :
       (Upgraded(a) /\ pending = << >>) =>
           /\ Unexpired(TierCacheKey(a)) => cache[TierCacheKey(a)].value.tier = backend[a]
           /\ (Decided("getCurrentTier") /\ answer.aff = a /\ answer.sent = << >>) =>
                 answer.result.tier = backend[a]

(***************************************************************************)
(* Overlapping refreshes: timer ticks, forceUpdate and startMonitoring     *)
(* send requests while earlier ones are in flight, and the responses       *)
(* arrive in any order: each outcome names the request it answers.         *)
(***************************************************************************)
OOutcomes ==
    {WithField(o, "request", k) :
        o \in {Outcome("neterr", FALSE, Null), Outcome("body", FALSE, Null),
               Outcome("body", TRUE, Capacity(Clicks(70, 100), <<Entry("PRO", Lo)>>)),
               Outcome("body", TRUE, Capacity(Clicks(85, 100), <<Entry("PRO", Mid)>>)),
               Outcome("body", TRUE, Capacity(Clicks(96, 100), <<Entry("PRO", Hi)>>))},
        k \in 1..MaxInFlight}

NextO ==
    \/ TimerTick
    \/ ForceUpdate
    \/ StartMonitoring
    \/ StopMonitoring
    \/ \E f \in BOOLEAN : AddListener(f)
    \/ \E o \in OOutcomes : FetchCapacityDone(o)

SpecO == Init /\ [][NextO]_vars

\* C34: a response that is stored as the snapshot answers a request sent
\* after the request whose response it replaces: no request sent before
\* that one is still in flight and answered now; so after overlapping
\* fetches have completed the snapshot is from the latest request stored.
C34_LaterRequestWins ==
    [][\A o \in OOutcomes :
          (FetchCapacityDone(o) /\ Stores(o)) => AnsweredRequest(o) > olderInFlight]_vars

\* C35: every key in the fired set belongs to a warning that was handed to
\* displayWarnings since the last reset, also after an evaluation that a
\* malformed snapshot interrupted.
C35_FiredOnlyWithEmission == \A k \in warningsShown : shown[k] >= 1

\* C36: the fired set is closed under the lower threshold: clicks_95 is in
\* it only with clicks_80, and tier_T_98 only with tier_T_90, for every
\* tier T.
C36_FiredClosedDownward ==
    /\ "clicks_95" \in warningsShown => "clicks_80" \in warningsShown
    /\ \A t \in TierNames :
          TierKey(t, "98") \in warningsShown => TierKey(t, "90") \in warningsShown

\* both critical keys are in the fired set, after an evaluation that went
\* through and after one that a malformed snapshot interrupted
C36_Witness ==
    /\ {"clicks_95", TierKey("PRO", "98")} \subseteq warningsShown
    /\ shown["clicks_95"] = 1
    /\ shown[TierKey("PRO", "98")] = 0

\* C37: a refresh that fails (network error, unparsable body, a null body,
\* success:false) calls no listener, evaluates no warning rule and leaves
\* the fired set, the warnings shown and the snapshot as they were.
C37_FailedRefreshTouchesNothing ==
    [][\A o \in Failures :
          FetchCapacityDone(o) =>
              /\ calls' = NoCalls
              /\ warningsShown' = warningsShown
              /\ shown' = shown
              /\ currentCapacity' = currentCapacity
              /\ ret' = "null"]_vars

\* a refresh has failed while listeners were registered and a snapshot whose
\* warnings had fired was held
C37_Witness ==
    /\ ret = "null"
    /\ calls = NoCalls
    /\ Len(listeners) > 0
    /\ WellFormed(currentCapacity)
    /\ SatisfiedKeys(currentCapacity) # {}
    /\ SatisfiedKeys(currentCapacity) \subseteq warningsShown

\* C38: at most one interval timer is alive at any time, and a timer tick
\* sends a request only while the monitor holds a timer: once
\* stopMonitoring() has run, no timer-triggered fetch occurs until the
\* monitor is started again.
C38_AtMostOneTimer ==
    /\ [](Cardinality(timers) <= 1)
    /\ [][TimerTick => updateTimer # Null]_vars

\* C39: canUpgrade never returns canUpgrade = true for a status whose tier
\* info has no upgrade threshold (salesRequiredForUpgrade null), whatever
\* nextTier, totalSales and capacity the backend reported, and never for a
\* status with totalSales = 0.
C39_TerminalTierNeverEligible ==
    (Decided("canUpgrade") /\ answer.tier # Null) =>
        /\ Required(answer.tier) = Null => ~answer.result.canUpgrade
        /\ answer.tier.totalSales = 0 => ~answer.result.canUpgrade


(***************************************************************************)
(* Auth: login rate limiting.  handleLogin first awaits checkSystemStatus  *)
(* (a getSystemStatus request to the backend), then sanitizes the email,   *)
(* asks checkRateLimit, awaits the client data packet and only then sends  *)
(* the login request.  A frame in pending is a handleLogin suspended at    *)
(* one of its three awaits; loginAttempts holds, per email, the times of   *)
(* the recorded failures.                                                  *)
(***************************************************************************)
maxLoginAttempts == 5

rateLimitWindow == 15 * 60 * 1000

LoginStep == rateLimitWindow \div 2

MaxLoginClock == 1350000

\* this.loginAttempts.get(email) || []
AttemptsOf(attempts, email) == IF email \in DOMAIN attempts THEN attempts[email] ELSE << >>

\* attempts.filter(timestamp => now - timestamp < rateLimitWindow)
RecentAttempts(timestamps, t) == SelectSeq(timestamps, LAMBDA x : t - x < rateLimitWindow)

\* this.loginAttempts.set(email, timestamps)
SetAttempts(attempts, email, timestamps) ==
    [e \in DOMAIN attempts \cup {email} |-> IF e = email THEN timestamps ELSE attempts[e]]

\* this.loginAttempts.delete(email)
DeleteAttempts(attempts, email) == Without(attempts, email)

WithinLimitInclusive(n) == n <= maxLoginAttempts

\* recentAttempts.length < maxLoginAttempts
WithinLimit(n) == n < maxLoginAttempts

\* checkRateLimit(email) at time t: the attempts it stores and its answer
CheckRateLimit(attempts, email, t) ==
    LET recentAttempts == RecentAttempts(AttemptsOf(attempts, email), t)
    IN  [attempts |-> SetAttempts(attempts, email, recentAttempts),
         allowed |-> WithinLimit(Len(recentAttempts))]

\* recordLoginAttempt(email) at time t
RecordLoginAttempt(attempts, email, t) ==
    SetAttempts(attempts, email, Append(AttemptsOf(attempts, email), t))

\* the emails typed into the form: one that Sanitizer.sanitizeEmail and
\* Validator.isEmail accept, and one on which sanitizeEmail throws
LoginEmails == {"a@x.io", "nope"}

IsEmail(email) == email = "a@x.io"

LoginFrame(email, stage, sent) ==
    [op |-> "handleLogin", email |-> email, stage |-> stage, sent |-> sent]

LoginAnswer(f, result) ==
    [op |-> "handleLogin", email |-> f.email, result |-> result, sent |-> f.sent]

\* what the backend may answer to getSystemStatus: online, offline, or the
\* request or its json() fails
SystemStatusOutcomes ==
    {[kind |-> "body", data |-> [status |-> "ONLINE"]],
     [kind |-> "body", data |-> [status |-> "OFFLINE"]],
     [kind |-> "neterr"]}

\* checkSystemStatus(): false only for a body whose status is not 'ONLINE'
SystemOnline(o) == o.kind = "body" => o.data.status = "ONLINE"

\* what the backend may answer to the login request: success, a refusal
\* with or without a success field, a null body, an unparsable body, or no
\* answer at all
LoginOutcomes ==
    {[kind |-> "body", data |-> [success |-> TRUE, token |-> "t"]],
     [kind |-> "body", data |-> [success |-> FALSE, message |-> "Invalid credentials"]],
     [kind |-> "body", data |-> [message |-> "Invalid credentials"]],
     [kind |-> "body", data |-> Null],
     [kind |-> "badjson"],
     [kind |-> "neterr"]}

\* the try block reaches `if (data.success)`
LoginAnswered(o) == o.kind = "body" /\ o.data # Null

LoginSucceeded(o) == LoginAnswered(o) /\ "success" \in DOMAIN o.data /\ o.data.success

\* the form is submitted: handleLogin sends the system-status request
HandleLoginCall(email) ==
    /\ Len(pending) < MaxCalls
    /\ pending' = Append(pending, LoginFrame(email, "status", <<"getSystemStatus">>))
    /\ UNCHANGED <<cache, now, updateCallbacks, cacheLog, answer, backend, loginAttempts>>
    /\ UNCHANGED monitorVars

\* the system status is answered: handleLogin returns when the system is
\* offline, fails when sanitizeEmail throws, returns when checkRateLimit
\* refuses, and otherwise waits for the client data packet
SystemStatusArrives(i, o) ==
    /\ i \in 1..Len(pending)
    /\ pending[i].op = "handleLogin"
    /\ pending[i].stage = "status"
    /\ LET f == pending[i]
           check == CheckRateLimit(loginAttempts, f.email, now)
       IN  IF ~SystemOnline(o)
           THEN /\ answer' = LoginAnswer(f, "offline")
                /\ pending' = Remove(pending, i)
                /\ UNCHANGED loginAttempts
           ELSE IF ~IsEmail(f.email)
           THEN /\ answer' = LoginAnswer(f, "invalid")
                /\ pending' = Remove(pending, i)
                /\ UNCHANGED loginAttempts
           ELSE /\ loginAttempts' = check.attempts
                /\ IF check.allowed
                   THEN /\ pending' = [pending EXCEPT ![i] = LoginFrame(f.email, "clientData", f.sent)]
                        /\ UNCHANGED answer
                   ELSE /\ answer' = LoginAnswer(f, "limited")
                        /\ pending' = Remove(pending, i)
    /\ UNCHANGED <<cache, now, updateCallbacks, cacheLog, backend>>
    /\ UNCHANGED monitorVars

\* ClientData.getClientData() settles: the login request is sent, or the
\* catch block reports a network error
ClientDataArrives(i, resolved) ==
    /\ i \in 1..Len(pending)
    /\ pending[i].op = "handleLogin"
    /\ pending[i].stage = "clientData"
    /\ IF resolved
       THEN /\ pending' = [pending EXCEPT ![i] =
                              LoginFrame(@.email, "login", Append(@.sent, "login"))]
            /\ UNCHANGED answer
       ELSE /\ answer' = LoginAnswer(pending[i], "error")
            /\ pending' = Remove(pending, i)
    /\ UNCHANGED <<cache, now, updateCallbacks, cacheLog, backend, loginAttempts>>
    /\ UNCHANGED monitorVars

\* the login request is answered
LoginArrives(i, o) ==
    /\ i \in 1..Len(pending)
    /\ pending[i].op = "handleLogin"
    /\ pending[i].stage = "login"
    /\ LET f == pending[i]
       IN  IF ~LoginAnswered(o)
           THEN /\ answer' = LoginAnswer(f, "error")
                /\ UNCHANGED loginAttempts
           ELSE IF LoginSucceeded(o)
           THEN /\ answer' = LoginAnswer(f, "success")
                /\ loginAttempts' = DeleteAttempts(loginAttempts, f.email)
           ELSE /\ answer' = LoginAnswer(f, "failed")
                /\ loginAttempts' = RecordLoginAttempt(loginAttempts, f.email, now)
    /\ pending' = Remove(pending, i)
    /\ UNCHANGED <<cache, now, updateCallbacks, cacheLog, backend>>
    /\ UNCHANGED monitorVars

NextH ==
    \/ \E email \in LoginEmails : HandleLoginCall(email)
    \/ \E i \in 1..MaxCalls, o \in SystemStatusOutcomes : SystemStatusArrives(i, o)
    \/ \E i \in 1..MaxCalls, resolved \in BOOLEAN : ClientDataArrives(i, resolved)
    \/ \E i \in 1..MaxCalls, o \in LoginOutcomes : LoginArrives(i, o)
    \/ AdvanceClock(LoginStep, MaxLoginClock)

SpecH == Init /\ [][NextH]_vars

\* the recorded attempts for the email that are younger than the window
Younger(email) ==
    {j \in 1..Len(AttemptsOf(loginAttempts, email)) :
        now - AttemptsOf(loginAttempts, email)[j] < rateLimitWindow}

\* a handleLogin for a well-formed email reaches its rate-limit check
ReachesCheck(i, o) == SystemStatusArrives(i, o) /\ SystemOnline(o) /\ IsEmail(pending[i].email)

====
